---- MODULE Spec2Model ----
(***************************************************************************)
(* Model of the question-lock manager, the wrong-attempt tracker and the   *)
(* Question request handler of the hunt server.                            *)
(*                                                                         *)
(* The store is modelled table by table; every SQL statement is one atomic *)
(* step, and a Go function that issues several statements is a sequence of *)
(* steps that other callers may interleave with.  Time is the wall clock   *)
(* in whole seconds.  All teams of Teams have a row in the teams table, so *)
(* the JOIN on teams in the lock queries never drops a row.                *)
(***************************************************************************)
EXTENDS Integers, Sequences, FiniteSets, TLC

\* ---------------------------------------------------------------- bounds
NumTeams == 2
NumQuestions == 2
MaxTime == 20
TickSeconds == 10
NumCallers == 1
NumReqs == 2
NumProcs == 2
NumClients == 2
BroadcastBuffer == 3
ClientBuffer == 2
NumEvents == 4
NumRelayEvents == 2
MaxWritten == 4
MaxUnregisterCalls == 2
MaxBlocks == 2

\* ----------------------------------------------------- program constants
\* locked_at < datetime('now', '-10 seconds')
StaleSeconds == 10
\* wrong_attempts >= 5, attemptsLeft := 5 - newAttempts
MaxAttempts == 5
\* QuotaLimit = 10
QuotaLimit == 10
\* SlotDuration = 10 * time.Hour, in seconds
SlotDuration == 36000
\* adminRateLimiter.maxAttempts: 5
AdminMaxAttempts == 5
\* adminRateLimiter.blockDuration: 15 * time.Minute, in seconds
BlockSeconds == 900
\* adminRateLimiter.windowDuration: 10 * time.Minute, in seconds
WindowSeconds == 600

Teams == 1..NumTeams
Questions == 1..NumQuestions
Callers == 1..NumCallers
Reqs == 1..NumReqs
Procs == 1..NumProcs
Clients == 1..NumClients
Times == 0..MaxTime

VARIABLES
    now,                \* wall clock, seconds
    question_locks,     \* table question_locks: set of rows
    question_attempts,  \* table question_attempts: set of rows
    team_completed_questions, \* table team_completed_questions: set of rows
    question_timers,    \* table question_timers: set of rows
    tryLockRet,         \* per team and question: what the team's
                        \* TryLockQuestion call on the question returned
    lastOp,             \* the call that returned in the last step, with
                        \* what it returned (NoOp when none did)
    lockCall,           \* per caller: the IsQuestionLocked or
                        \* GetAllLockedQuestions call in progress
    question_points,    \* questions.points of the question the requests
                        \* are about
    adminRateLimiter,   \* adminRateLimiter.attempts[ip] for one client IP
    adminReq,           \* per request: position in AuthHandler.AdminHandler
    team_points,        \* teams.points, per team
    req,                \* per request: position in AuthHandler.Question and
                        \* its local variables
    returnedCount,      \* per team: wrong attempts that RecordWrongAttempt
                        \* calls have reported as recorded
    returnedPenalty,    \* per team: sum of the penalties that
                        \* RecordWrongAttempt calls have returned
    team_quota_slots,   \* table team_quota_slots: set of rows
    quotaCall,          \* per request: the GetQuotaSlot call in progress
    broadcast,          \* per process: the Broadcaster's broadcast channel
    clientQueue,        \* per process and client: the client's Channel
    dispatching,        \* per process and dispatcher (run loop, relay
                        \* subscriber): the broadcastToClients call in
                        \* progress
    publishing,         \* per process: events held by publishToRedis
                        \* goroutines that have not published yet
    relayed,            \* per process: messages the relay has delivered to
                        \* the process's subscription, not yet handled
    emitted,            \* the events the producer has passed to Broadcast,
                        \* in call order, each with whether it was queued
    published,          \* the messages published on the relay channel, in
                        \* publish order
    redisClient,        \* whether the processes hold a relay connection
                        \* (b.redisClient != nil)
    clients,            \* per process: the registered clients (b.clients)
    delivered,          \* per process and client: the events that were put
                        \* on the client's Channel, in order
    skipped,            \* per process and client: the events that timed out
                        \* on the client's Channel, in order
    register,           \* per process: the clients waiting in b.register
    unregister,         \* per process: the clients waiting in b.unregister
    closed,             \* per process and client: how many times
                        \* close(client.Channel) has run
    conn                \* per process and client: the SSEHandler call that
                        \* serves the client's connection, with what it has
                        \* written to the response

\* The Broadcaster's state other than the broadcast channels.
\* The registration channels, the clients' Channels being closed, and the
\* connection handlers.
adminVars == <<adminRateLimiter, adminReq>>

registryVars == <<register, unregister, closed, conn>>

relayVars == <<clientQueue, dispatching, publishing, relayed, emitted,
               published, redisClient, clients, delivered, skipped,
               registryVars>>

gameVars == <<question_points, adminVars, team_points, req, returnedCount,
              returnedPenalty, team_quota_slots, quotaCall, broadcast,
              relayVars>>

vars == <<now, question_locks, question_attempts, question_timers,
          team_completed_questions,
          tryLockRet, lastOp, lockCall, gameVars>>

\* ------------------------------------------------------------ lock table
QuestionLock(q, t, ts) ==
    [question_id |-> q, locked_by_team_id |-> t, locked_at |-> ts]

LockRows(locks, q) == {r \in locks : r.question_id = q}

\* Faulty variant of IsStale: the threshold is computed from the zero time
\* instead of the current time.
IsStaleFromZeroTime(r, clock) == r.locked_at < 0 - StaleSeconds

\* locked_at < datetime('now', '-10 seconds')
IsStale(r, clock) == r.locked_at < clock - StaleSeconds

\* Faulty variant of LockQuestionStmt: INSERT OR REPLACE, which overwrites
\* the holder.
LockQuestionUpsert(locks, q, t, ts) ==
    [locks |-> (locks \ LockRows(locks, q)) \cup {QuestionLock(q, t, ts)},
     rows |-> 1]

\* Faulty variant of LockQuestionStmt: plain INSERT on a table without the
\* uniqueness of question_id.
LockQuestionBlind(locks, q, t, ts) ==
    [locks |-> locks \cup {QuestionLock(q, t, ts)}, rows |-> 1]

\* INSERT INTO question_locks ... SELECT ?, ?, ? WHERE NOT EXISTS (SELECT 1
\* FROM question_locks WHERE question_id = ?), with locked_at = time.Now().
\* Gives the table after the statement and RowsAffected().
LockQuestionStmt(locks, q, t, ts) ==
    IF LockRows(locks, q) = {}
    THEN [locks |-> locks \cup {QuestionLock(q, t, ts)}, rows |-> 1]
    ELSE [locks |-> locks, rows |-> 0]

\* Faulty variant of TryLockResult: RowsAffected() is not looked at.
TryLockResultIgnoreRows(rows) == "ok"

\* LockQuestion returns nil exactly when rowsAffected /= 0;
\* TryLockQuestion maps the "already locked" error to (false, nil).
TryLockResult(rows) == IF rows = 0 THEN "AlreadyLocked" ELSE "ok"

\* Faulty variant of UnlockQuestionStmt: deleting nothing is an error.
UnlockQuestionStrict(locks, q) ==
    [locks |-> locks \ LockRows(locks, q),
     rows |-> Cardinality(LockRows(locks, q)),
     err |-> LockRows(locks, q) = {}]

\* DELETE FROM question_locks WHERE question_id = ?
UnlockQuestionStmt(locks, q) ==
    [locks |-> locks \ LockRows(locks, q),
     rows |-> Cardinality(LockRows(locks, q)),
     err |-> FALSE]

\* Faulty variant of PurgeStaleOf: the read does not purge.
PurgeStaleOfNothing(locks, q, clock) == locks

\* DELETE FROM question_locks WHERE question_id = ?
\*   AND locked_at < datetime('now', '-10 seconds')
PurgeStaleOf(locks, q, clock) ==
    locks \ {r \in LockRows(locks, q) : IsStale(r, clock)}

\* Faulty variant of PurgeStale: the DELETE has no WHERE clause.
PurgeStaleAndYounger(locks, clock) == {}

\* DELETE FROM question_locks WHERE locked_at < datetime('now', '-10 seconds')
PurgeStale(locks, clock) == locks \ {r \in locks : IsStale(r, clock)}

\* SELECT ... FROM question_locks ql JOIN teams t ... WHERE ql.question_id = ?
SelectLock(locks, q) == LockRows(locks, q)

\* SELECT ... FROM question_locks ql JOIN teams t ...
SelectAllLocks(locks) == locks

\* DELETE FROM question_locks WHERE question_id = ? AND locked_by_team_id = ?
DeleteLockOfTeam(locks, q, t) ==
    locks \ {r \in LockRows(locks, q) : r.locked_by_team_id = t}

\* -------------------------------------------------------- attempts table
\* One row per (team_id, question_id); last_attempt_at is written but never
\* read by the server and is left out.
QuestionAttempt(t, q, n, pen) ==
    [team_id |-> t, question_id |-> q, wrong_attempts |-> n,
     total_penalty |-> pen]

AttemptRows(attempts, t, q) ==
    {r \in attempts : r.team_id = t /\ r.question_id = q}

Completed(t, q) == [team_id |-> t, question_id |-> q]

\* A row of question_timers; started_at is not followed.
QuestionTimer(t, q) == [team_id |-> t, question_id |-> q]

\* ------------------------------------------------------- admin unlocking
\* UnlockSolvedQuestion: the four DELETE statements for (question, team).
UnlockSolvedQuestionTables(locks, attempts, completed, q, t) ==
    [locks |-> DeleteLockOfTeam(locks, q, t),
     attempts |-> attempts \ AttemptRows(attempts, t, q),
     completed |-> completed \ {Completed(t, q)}]

\* UnlockAllSolvedQuestions: removes every lock on the question and the
\* attempts of the teams that have not completed it; completions stay.
UnlockAllSolvedQuestionsTables(locks, attempts, completed, q) ==
    [locks |-> locks \ LockRows(locks, q),
     attempts |-> {r \in attempts :
                      ~(r.question_id = q
                        /\ Completed(r.team_id, q) \notin completed)},
     completed |-> completed]

\* ------------------------------------------------- lock manager: history
NoOp == [op |-> "none", q |-> 0, team |-> 0, rows |-> 0, result |-> "none",
         calledAt |-> 0, ret |-> {}, read |-> {}]

Returned(op, q, rows, result) ==
    [op |-> op, q |-> q, team |-> 0, rows |-> rows, result |-> result,
     calledAt |-> now, ret |-> {}, read |-> {}]

IdleCall == [op |-> "none", pc |-> "idle", q |-> 0, calledAt |-> 0,
             purged |-> 0]

IdleQuotaCall == [pc |-> "idle", team |-> 0, calledAt |-> 0, found |-> FALSE,
                  start |-> 0, count |-> 0]

\* adminRateLimiter.attempts has no entry for the client IP; the zero
\* time.Time is before every time of the clock.
NoAttempt == [exists |-> FALSE, Count |-> 0, LastAttempt |-> 0,
              BlockedUntil |-> 0]

\* No POST /sudo is being served.
IdleAdminReq == [pc |-> "idle", correct |-> FALSE, status |-> "none"]

\* The package variable adminRateLimiter as initialised: an empty map.
NewAdminRateLimiter ==
    /\ adminRateLimiter = NoAttempt
    /\ adminReq = [r \in Reqs |-> IdleAdminReq]

\* No event: what an idle dispatcher holds.
NoEvent == [type |-> "none", question_id |-> 0, team_id |-> 0]

Dispatchers == {"run", "relay"}

IdleDispatch == [busy |-> FALSE, event |-> NoEvent, todo |-> {}]

\* No connection: SSEHandler has not been called for the client.
IdleConn == [pc |-> "idle", written |-> <<>>, listed |-> FALSE,
             unregisterCalls |-> 0]

\* A message written to a connection's response: the acknowledgement, the
\* snapshot of the locks, an event taken off the client's Channel, or a
\* heartbeat.
Wrote(kind, event, locks) == [kind |-> kind, event |-> event, locks |-> locks]

\* SSEHandler has registered the client, written the acknowledgement and the
\* snapshot of the locks, and is in its loop.
StreamingConn ==
    [pc |-> "loop",
     written |-> <<Wrote("connected", NoEvent, {}),
                   Wrote("snapshot", NoEvent, {})>>,
     listed |-> TRUE, unregisterCalls |-> 0]

\* NewBroadcaster on every process, with or without a relay connection:
\* empty channels. The given clients are registered on each process, with an
\* empty Channel each.
NewBroadcaster(relay, registered) ==
    /\ broadcast = [p \in Procs |-> <<>>]
    /\ clientQueue = [p \in Procs |-> [c \in Clients |-> <<>>]]
    /\ dispatching = [p \in Procs |-> [d \in Dispatchers |-> IdleDispatch]]
    /\ publishing = [p \in Procs |-> <<>>]
    /\ relayed = [p \in Procs |-> <<>>]
    /\ emitted = <<>>
    /\ published = <<>>
    /\ redisClient = relay
    /\ clients = registered
    /\ delivered = [p \in Procs |-> [c \in Clients |-> <<>>]]
    /\ skipped = [p \in Procs |-> [c \in Clients |-> <<>>]]
    /\ register = [p \in Procs |-> <<>>]
    /\ unregister = [p \in Procs |-> <<>>]
    /\ closed = [p \in Procs |-> [c \in Clients |-> 0]]
    /\ conn = [p \in Procs |-> [c \in Clients |->
                 IF c \in registered[p] THEN StreamingConn ELSE IdleConn]]

\* Every client is connected to process 1, the process that serves the
\* requests.
ClientsOfFirst == [p \in Procs |-> IF p = 1 THEN Clients ELSE {}]

\* Standalone mode: no relay address is configured.
InitBroadcaster == NewBroadcaster(FALSE, ClientsOfFirst)

IdleReq == [pc |-> "idle", team |-> 0, q |-> 0, method |-> "",
            correct |-> FALSE, hasCompleted |-> FALSE, isLocked |-> FALSE,
            lockedBy |-> 0, att |-> 0, pen |-> 0, penalty |-> 0, left |-> 0,
            status |-> "", slotFound |-> FALSE, recorded |-> FALSE,
            unlocked |-> FALSE, sent |-> <<>>]

\* ------------------------------------------------- lock manager: actions
Tick ==
    /\ now + TickSeconds =< MaxTime
    /\ now' = now + TickSeconds
    /\ lastOp' = NoOp
    /\ UNCHANGED <<gameVars, question_locks, question_attempts, question_timers,
                   team_completed_questions, tryLockRet, lockCall>>

\* TryLockQuestion(questionID, teamID): one conditional INSERT.
TryLockQuestion(q, t) ==
    /\ LET res == LockQuestionStmt(question_locks, q, t, now)
       IN /\ question_locks' = res.locks
          /\ lastOp' = [Returned("lock", q, res.rows, TryLockResult(res.rows))
                            EXCEPT !.team = t]
    /\ UNCHANGED <<gameVars, now, question_attempts, question_timers, team_completed_questions,
                   tryLockRet, lockCall>>

\* UnlockQuestion(questionID): one unconditional DELETE.
UnlockQuestion(q) ==
    /\ LET res == UnlockQuestionStmt(question_locks, q)
       IN /\ question_locks' = res.locks
          /\ lastOp' = Returned("release", q, res.rows,
                                IF res.err THEN "error" ELSE "ok")
    /\ UNCHANGED <<gameVars, now, question_attempts, question_timers, team_completed_questions,
                   tryLockRet, lockCall>>

\* CleanupStaleLocks(): one DELETE of every stale row.
CleanupStaleLocks ==
    /\ LET locks2 == PurgeStale(question_locks, now)
       IN /\ question_locks' = locks2
          /\ lastOp' = Returned("cleanup", 0,
                                Cardinality(question_locks \ locks2), "ok")
    /\ UNCHANGED <<gameVars, now, question_attempts, question_timers, team_completed_questions,
                   tryLockRet, lockCall>>

\* IsQuestionLocked(questionID): the DELETE of the question's stale lock, as
\* every other statement sees it.
IsQuestionLockedCleanup(q) ==
    /\ LET locks2 == PurgeStaleOf(question_locks, q, now)
       IN /\ question_locks' = locks2
          /\ lastOp' = Returned("purge", q,
                                Cardinality(question_locks \ locks2), "ok")
    /\ UNCHANGED <<gameVars, now, question_attempts, question_timers, team_completed_questions,
                   tryLockRet, lockCall>>

\* IsQuestionLocked(questionID), first statement: purge the question's
\* stale lock.
IsQuestionLockedPurge(c, q) ==
    /\ lockCall[c].pc = "idle"
    /\ LET locks2 == PurgeStaleOf(question_locks, q, now)
       IN /\ question_locks' = locks2
          /\ lockCall' = [lockCall EXCEPT ![c] =
                 [op |-> "isLocked", pc |-> "select", q |-> q,
                  calledAt |-> now,
                  purged |-> Cardinality(question_locks \ locks2)]]
    /\ lastOp' = NoOp
    /\ UNCHANGED <<gameVars, now, question_attempts, question_timers, team_completed_questions,
                   tryLockRet>>

\* IsQuestionLocked, second statement: read the row; sql.ErrNoRows means
\* (false, nil, nil), a row means (true, &lock, nil).
IsQuestionLockedSelect(c) ==
    /\ lockCall[c].op = "isLocked" /\ lockCall[c].pc = "select"
    /\ LET found == SelectLock(question_locks, lockCall[c].q)
       IN lastOp' = [op |-> "isLocked", q |-> lockCall[c].q, team |-> 0,
                     rows |-> lockCall[c].purged,
                     result |-> IF found = {} THEN "unlocked" ELSE "locked",
                     calledAt |-> lockCall[c].calledAt, ret |-> found]
    /\ lockCall' = [lockCall EXCEPT ![c] = IdleCall]
    /\ UNCHANGED <<gameVars, now, question_locks, question_attempts, question_timers,
                   team_completed_questions, tryLockRet>>

\* GetAllLockedQuestions(), first statement: purge every stale lock.
GetAllLockedQuestionsPurge(c) ==
    /\ lockCall[c].pc = "idle"
    /\ LET locks2 == PurgeStale(question_locks, now)
       IN /\ question_locks' = locks2
          /\ lockCall' = [lockCall EXCEPT ![c] =
                 [op |-> "list", pc |-> "select", q |-> 0,
                  calledAt |-> now,
                  purged |-> Cardinality(question_locks \ locks2)]]
    /\ lastOp' = NoOp
    /\ UNCHANGED <<gameVars, now, question_attempts, question_timers, team_completed_questions,
                   tryLockRet>>

\* GetAllLockedQuestions, second statement: read every row.
GetAllLockedQuestionsSelect(c) ==
    /\ lockCall[c].op = "list" /\ lockCall[c].pc = "select"
    /\ lastOp' = [op |-> "list", q |-> 0, team |-> 0,
                  rows |-> lockCall[c].purged,
                  result |-> "ok", calledAt |-> lockCall[c].calledAt,
                  ret |-> SelectAllLocks(question_locks)]
    /\ lockCall' = [lockCall EXCEPT ![c] = IdleCall]
    /\ UNCHANGED <<gameVars, now, question_locks, question_attempts, question_timers,
                   team_completed_questions, tryLockRet>>

\* AdminUnlockQuestionHandler -> UnlockSolvedQuestion(questionID, teamID).
UnlockSolvedQuestion(q, t) ==
    /\ LET res == UnlockSolvedQuestionTables(question_locks, question_attempts,
                                             team_completed_questions, q, t)
       IN /\ question_locks' = res.locks
          /\ question_attempts' = res.attempts
          /\ team_completed_questions' = res.completed
          /\ lastOp' = Returned("adminUnlock", q,
                                Cardinality(question_locks \ res.locks), "ok")
    /\ question_timers' = question_timers \ {QuestionTimer(t, q)}
    /\ UNCHANGED <<gameVars, now, tryLockRet, lockCall>>

\* AdminUnlockAllQuestionHandler -> UnlockAllSolvedQuestions(questionID).
UnlockAllSolvedQuestions(q) ==
    /\ LET res == UnlockAllSolvedQuestionsTables(question_locks,
                      question_attempts, team_completed_questions, q)
       IN /\ question_locks' = res.locks
          /\ question_attempts' = res.attempts
          /\ team_completed_questions' = res.completed
          /\ lastOp' = Returned("adminUnlockAll", q,
                                Cardinality(question_locks \ res.locks), "ok")
    /\ question_timers' =
           {timer \in question_timers :
               ~(/\ timer.question_id = q
                 /\ Completed(timer.team_id, q) \notin team_completed_questions)}
    /\ UNCHANGED <<gameVars, now, tryLockRet, lockCall>>

InitLock ==
    /\ now = 0
    /\ team_quota_slots = {}
    /\ quotaCall = [r \in Reqs |-> IdleQuotaCall]
    /\ InitBroadcaster
    /\ question_locks = {}
    /\ question_attempts = {}
    /\ question_timers = {}
    /\ NewAdminRateLimiter
    /\ team_completed_questions = {}
    /\ tryLockRet = [t \in Teams |-> [q \in Questions |-> "pending"]]
    /\ lastOp = NoOp
    /\ lockCall = [c \in Callers |-> IdleCall]
    /\ question_points = 0
    /\ team_points = [t \in Teams |-> 0]
    /\ req = [r \in Reqs |-> IdleReq]
    /\ returnedCount = [t \in Teams |-> 0]
    /\ returnedPenalty = [t \in Teams |-> 0]

\* The statements that write question_locks. A read's DELETE of stale rows
\* is a step here; what the read returns is followed in SpecRead.
NextLock ==
    \/ Tick
    \/ \E q \in Questions, t \in Teams : TryLockQuestion(q, t)
    \/ \E q \in Questions : UnlockQuestion(q)
    \/ CleanupStaleLocks
    \/ \E q \in Questions : IsQuestionLockedCleanup(q)
    \/ \E q \in Questions, t \in Teams : UnlockSolvedQuestion(q, t)
    \/ \E q \in Questions : UnlockAllSolvedQuestions(q)

SpecLock == InitLock /\ [][NextLock]_vars

\* Acquisitions, releases and the sweep, with the two reads followed from
\* their DELETE to their SELECT and their return.
NextRead ==
    \/ Tick
    \/ \E q \in Questions, t \in Teams : TryLockQuestion(q, t)
    \/ \E q \in Questions : UnlockQuestion(q)
    \/ CleanupStaleLocks
    \/ \E c \in Callers, q \in Questions : IsQuestionLockedPurge(c, q)
    \/ \E c \in Callers : IsQuestionLockedSelect(c)
    \/ \E c \in Callers : GetAllLockedQuestionsPurge(c)
    \/ \E c \in Callers : GetAllLockedQuestionsSelect(c)

SpecRead == InitLock /\ [][NextRead]_vars

\* ------------------------------------- concurrent acquisition of free questions
\* Every team calls TryLockQuestion once on every question, in any order and
\* at any time; nothing else touches the lock table.
ConcurrentTryLock(q, t) ==
    /\ tryLockRet[t][q] = "pending"
    /\ LET res == LockQuestionStmt(question_locks, q, t, now)
       IN /\ question_locks' = res.locks
          /\ tryLockRet' = [tryLockRet EXCEPT ![t][q] = TryLockResult(res.rows)]
          /\ lastOp' = [Returned("lock", q, res.rows, TryLockResult(res.rows))
                            EXCEPT !.team = t]
    /\ UNCHANGED <<gameVars, now, question_attempts, question_timers, team_completed_questions, lockCall>>

NextAcquire ==
    \/ Tick
    \/ \E q \in Questions, t \in Teams : ConcurrentTryLock(q, t)

SpecAcquire == InitLock /\ [][NextAcquire]_vars

\* ------------------------------------------------- lock manager: claims
CalledOn(q) == {t \in Teams : tryLockRet[t][q] # "pending"}

\* C1: of the TryLockQuestion calls that different teams make concurrently
\* on a question without a lock row, exactly one returns success, every
\* other one returns AlreadyLocked, and the lock row belongs to the team
\* whose call succeeded.
C1_ExactlyOneAcquires ==
    \A q \in Questions :
        CalledOn(q) # {} =>
            /\ Cardinality({t \in CalledOn(q) : tryLockRet[t][q] = "ok"}) = 1
            /\ \A t \in CalledOn(q) :
                   \/ tryLockRet[t][q] = "AlreadyLocked"
                   \/ /\ tryLockRet[t][q] = "ok"
                      /\ \A r \in LockRows(question_locks, q) :
                             r.locked_by_team_id = t

\* Every team's call on some question has returned.
C1_Witness ==
    \E q \in Questions : CalledOn(q) = Teams /\ Cardinality(Teams) >= 2

\* C2: the lock table never holds two rows with the same question_id.
C2_OneRowPerQuestion ==
    \A q \in Questions : Cardinality(LockRows(question_locks, q)) =< 1

\* Every question is locked and a further acquisition has just been refused.
C2_Witness ==
    /\ \A q \in Questions : LockRows(question_locks, q) # {}
    /\ lastOp.op = "lock" /\ lastOp.rows = 0

\* C3: a LockQuestion call on a question that has a lock row returns
\* AlreadyLocked and leaves the whole lock table, that row's holder and
\* locked_at included, as it was.
C3_InsertIffAbsent ==
    [][(lastOp'.op = "lock" /\ LockRows(question_locks, lastOp'.q) # {})
          => (lastOp'.result = "AlreadyLocked"
              /\ question_locks' = question_locks)]_vars

\* The holder itself has called LockQuestion again, later than locked_at.
C3_Witness ==
    /\ lastOp.op = "lock" /\ lastOp.result = "AlreadyLocked"
    /\ \E r \in LockRows(question_locks, lastOp.q) :
           r.locked_at < now /\ r.locked_by_team_id = lastOp.team

C7_ReleaseIdempotent ==
    [][lastOp'.op = "release"
          => /\ lastOp'.result = "ok"
             /\ LockRows(question_locks', lastOp'.q) = {}
             /\ question_locks' \subseteq question_locks
             /\ \A r \in question_locks :
                    r.question_id # lastOp'.q => r \in question_locks']_vars

\* UnlockQuestion has run on a question without a lock row while another
\* question is locked.
C7_Witness ==
    /\ lastOp.op = "release" /\ lastOp.rows = 0
    /\ question_locks # {}


\* ------------------------------------------------ attempts: statements
\* GetQuestionAttempts: the row of (team, question), or the zero record when
\* there is none (sql.ErrNoRows).
GetQuestionAttempts(attempts, t, q) ==
    IF AttemptRows(attempts, t, q) = {}
    THEN QuestionAttempt(t, q, 0, 0)
    ELSE CHOOSE r \in AttemptRows(attempts, t, q) : TRUE

\* Faulty variant: the switch is taken on the count after the increment.
PenaltyOfNewCount(wrongAttempts, questionPoints) ==
    CASE wrongAttempts + 1 = 0 -> 0
      [] wrongAttempts + 1 = 1 -> (questionPoints * 10) \div 100
      [] wrongAttempts + 1 = 2 -> (questionPoints * 30) \div 100
      [] wrongAttempts + 1 = 3 -> (questionPoints * 50) \div 100
      [] wrongAttempts + 1 = 4 -> (questionPoints * 70) \div 100
      [] OTHER -> 0

\* RecordWrongAttempt: the switch on attempt.WrongAttempts, the count read
\* before the increment.
Penalty(wrongAttempts, questionPoints) ==
    CASE wrongAttempts = 0 -> 0
      [] wrongAttempts = 1 -> (questionPoints * 10) \div 100
      [] wrongAttempts = 2 -> (questionPoints * 30) \div 100
      [] wrongAttempts = 3 -> (questionPoints * 50) \div 100
      [] wrongAttempts = 4 -> (questionPoints * 70) \div 100
      [] OTHER -> 0

\* INSERT INTO question_attempts ... ON CONFLICT(team_id, question_id)
\* DO UPDATE SET wrong_attempts = ?, total_penalty = ?: absolute values.
UpsertAttempt(attempts, t, q, n, pen) ==
    (attempts \ AttemptRows(attempts, t, q)) \cup {QuestionAttempt(t, q, n, pen)}

\* IsQuestionExhausted: attempt.WrongAttempts >= 5.
IsQuestionExhausted(attempts, t, q) ==
    GetQuestionAttempts(attempts, t, q).wrong_attempts >= MaxAttempts

\* IsQuestionSolvedByTeam: EXISTS(... WHERE team_id = ? AND question_id = ?).
IsQuestionSolvedByTeam(completed, t, q) == Completed(t, q) \in completed

\* IsQuestionSolvedByAnyone: EXISTS(... WHERE question_id = ?).
IsQuestionSolvedByAnyone(completed, q) ==
    \E c \in completed : c.question_id = q

\* ------------------------------------- AuthHandler.Question: one request
\* A request moves through the statements of the handler one at a time; other
\* requests run between any two of them.
At(r, pc) == req[r].pc = pc

Goto(r, pc) == [req[r] EXCEPT !.pc = pc]

Respond(r, status) == [req[r] EXCEPT !.pc = "done", !.status = status]

\* Variables of the other callers and of the Broadcaster's goroutines, which
\* a request never touches.
callVars == <<tryLockRet, lockCall, quotaCall, relayVars>>

\* ---------------------------------------------------- quota: statements
QuotaSlot(t, start, count) ==
    [team_id |-> t, current_slot_start |-> start,
     questions_solved_in_slot |-> count]

SlotRows(slots, t) == {s \in slots : s.team_id = t}

\* Faulty variant of SlotExpired: the slot must be older than the duration.
SlotExpiredStrictly(start, clock) == clock - start > SlotDuration

\* time.Since(slot.CurrentSlotStart) >= SlotDuration
SlotExpired(start, clock) == clock - start >= SlotDuration

\* CreateQuotaSlot: INSERT INTO team_quota_slots VALUES (?, ?, 0); team_id is
\* the primary key, so the INSERT fails when the team has a row.
CreateQuotaSlotStmt(slots, t, clock) ==
    IF SlotRows(slots, t) # {}
    THEN [slots |-> slots, err |-> TRUE]
    ELSE [slots |-> slots \cup {QuotaSlot(t, clock, 0)}, err |-> FALSE]

\* ResetQuotaSlot: UPDATE team_quota_slots SET current_slot_start = ?,
\* questions_solved_in_slot = 0 WHERE team_id = ?
ResetQuotaSlotStmt(slots, t, clock) ==
    {IF s.team_id = t THEN QuotaSlot(t, clock, 0) ELSE s : s \in slots}

\* IncrementQuotaCount: UPDATE team_quota_slots SET questions_solved_in_slot
\* = questions_solved_in_slot + 1 WHERE team_id = ?
IncrementQuotaCountStmt(slots, t) ==
    {IF s.team_id = t
     THEN QuotaSlot(t, s.current_slot_start, s.questions_solved_in_slot + 1)
     ELSE s : s \in slots}

\* ------------------------------------------------- Broadcaster.Broadcast
Event(type, q, t) == [type |-> type, question_id |-> q, team_id |-> t]

\* select { case ch <- event: ; case <-time.After(100ms): }: the event is
\* queued when the channel has room and dropped when it stays full.
Send(channel, capacity, event) ==
    IF Len(channel) < capacity THEN Append(channel, event) ELSE channel

\* Broadcast(eventType, data) on process p.
Broadcast(channels, p, event) ==
    [channels EXCEPT ![p] = Send(@, BroadcastBuffer, event)]

\* The request arrives: route parameter, session team, method, and whether
\* the submitted answer matches the stored hash.
QuestionStart(r, t, q, method, correct) ==
    /\ At(r, "idle")
    /\ req' = [req EXCEPT ![r] = [IdleReq EXCEPT !.pc = "IsQuestionSolvedByTeam",
                                   !.team = t, !.q = q, !.method = method,
                                   !.correct = correct]]
    /\ lastOp' = NoOp
    /\ UNCHANGED <<now, question_locks, question_attempts, question_timers,
                   team_completed_questions, callVars, team_quota_slots,
                   broadcast, question_points, adminVars, team_points, returnedCount,
                   returnedPenalty>>

\* IsQuestionSolvedByTeam(teamID, lvl)
QuestionIsSolvedByTeam(r) ==
    /\ At(r, "IsQuestionSolvedByTeam")
    /\ req' = [req EXCEPT ![r] =
                 [Goto(r, "CanSolveQuestion.select") EXCEPT !.hasCompleted =
                    IsQuestionSolvedByTeam(team_completed_questions,
                                           req[r].team, req[r].q)]]
    /\ lastOp' = NoOp
    /\ UNCHANGED <<now, question_locks, question_attempts, question_timers,
                   team_completed_questions, callVars, team_quota_slots,
                   broadcast, question_points, adminVars, team_points, returnedCount,
                   returnedPenalty>>

\* The request of record rq once GetQuotaSlot has returned a slot with the
\* given counter: CanSolveQuestion's comparison and the handler's check, or
\* the reply that follows GetTimeUntilQuotaReset.
AfterQuotaSlot(rq, count) ==
    IF rq.pc \in {"GetTimeUntilQuotaReset.select", "GetTimeUntilQuotaReset.write"}
    THEN [rq EXCEPT !.pc = "done", !.status = "403 quota exhausted"]
    ELSE IF ~(count < QuotaLimit) /\ ~rq.hasCompleted
    THEN [rq EXCEPT !.pc = "GetTimeUntilQuotaReset.select"]
    ELSE [rq EXCEPT !.pc = "IsQuestionSolvedByAnyone"]

\* The reply when GetQuotaSlot returned an error: CanSolveQuestion's error
\* is a 500, GetTimeUntilQuotaReset's error is ignored.
AfterQuotaError(rq) ==
    IF rq.pc = "GetTimeUntilQuotaReset.write"
    THEN [rq EXCEPT !.pc = "done", !.status = "403 quota exhausted"]
    ELSE [rq EXCEPT !.pc = "done", !.status = "500 quota"]

\* GetQuotaSlot, first statement: SELECT the team's slot; a missing or an
\* expired slot is written in a second statement.
QuestionQuotaSelect(r) ==
    /\ req[r].pc \in {"CanSolveQuestion.select", "GetTimeUntilQuotaReset.select"}
    /\ LET rows == SlotRows(team_quota_slots, req[r].team)
           write == IF req[r].pc = "CanSolveQuestion.select"
                    THEN "CanSolveQuestion.write"
                    ELSE "GetTimeUntilQuotaReset.write"
       IN req' = [req EXCEPT ![r] =
                    IF rows = {}
                    THEN [Goto(r, write) EXCEPT !.slotFound = FALSE]
                    ELSE IF SlotExpired((CHOOSE s \in rows : TRUE).current_slot_start, now)
                    THEN [Goto(r, write) EXCEPT !.slotFound = TRUE]
                    ELSE AfterQuotaSlot(req[r],
                           (CHOOSE s \in rows : TRUE).questions_solved_in_slot)]
    /\ lastOp' = NoOp
    /\ UNCHANGED <<now, question_locks, question_attempts, question_timers,
                   team_completed_questions, callVars, team_quota_slots,
                   broadcast, question_points, adminVars, team_points, returnedCount,
                   returnedPenalty>>

\* GetQuotaSlot, second statement: CreateQuotaSlot when no row was found,
\* ResetQuotaSlot when the row found had expired.
QuestionQuotaWrite(r) ==
    /\ req[r].pc \in {"CanSolveQuestion.write", "GetTimeUntilQuotaReset.write"}
    /\ IF req[r].slotFound
       THEN /\ team_quota_slots' =
                   ResetQuotaSlotStmt(team_quota_slots, req[r].team, now)
            /\ req' = [req EXCEPT ![r] = AfterQuotaSlot(req[r], 0)]
       ELSE LET res == CreateQuotaSlotStmt(team_quota_slots, req[r].team, now)
            IN /\ team_quota_slots' = res.slots
               /\ req' = [req EXCEPT ![r] =
                            IF res.err THEN AfterQuotaError(req[r])
                            ELSE AfterQuotaSlot(req[r], 0)]
    /\ lastOp' = NoOp
    /\ UNCHANGED <<now, question_locks, question_attempts, question_timers,
                   team_completed_questions, callVars, broadcast,
                   question_points, adminVars, team_points, returnedCount,
                   returnedPenalty>>

\* IsQuestionSolvedByAnyone(lvl)
QuestionIsSolvedByAnyone(r) ==
    /\ At(r, "IsQuestionSolvedByAnyone")
    /\ req' = [req EXCEPT ![r] =
                 IF /\ IsQuestionSolvedByAnyone(team_completed_questions, req[r].q)
                    /\ ~req[r].hasCompleted
                 THEN Respond(r, "403 solved by another team")
                 ELSE Goto(r, "IsQuestionLocked.delete")]
    /\ lastOp' = NoOp
    /\ UNCHANGED <<now, question_locks, question_attempts, question_timers,
                   team_completed_questions, callVars, team_quota_slots,
                   broadcast, question_points, adminVars, team_points, returnedCount,
                   returnedPenalty>>

\* IsQuestionLocked, first statement: delete the stale lock of the question.
QuestionLockPurge(r) ==
    /\ At(r, "IsQuestionLocked.delete")
    /\ question_locks' = PurgeStaleOf(question_locks, req[r].q, now)
    /\ req' = [req EXCEPT ![r] = Goto(r, "IsQuestionLocked.select")]
    /\ lastOp' = NoOp
    /\ UNCHANGED <<now, question_attempts, question_timers, team_completed_questions, callVars,
                   team_quota_slots, broadcast, question_points, adminVars, team_points,
                   returnedCount, returnedPenalty>>

\* IsQuestionLocked, second statement, and the handler's checks up to the
\* next statement.
QuestionLockSelect(r) ==
    /\ At(r, "IsQuestionLocked.select")
    /\ LET rows == SelectLock(question_locks, req[r].q)
           isLocked == rows # {}
           lockedBy == IF isLocked
                       THEN (CHOOSE l \in rows : TRUE).locked_by_team_id
                       ELSE 0
       IN req' = [req EXCEPT ![r] =
                    IF isLocked /\ lockedBy # req[r].team
                    THEN Respond(r, "403 locked by another team")
                    ELSE IF req[r].method = "POST" /\ req[r].hasCompleted
                    THEN Respond(r, "403 already solved")
                    ELSE [Goto(r, "IsQuestionExhausted") EXCEPT
                            !.isLocked = isLocked, !.lockedBy = lockedBy]]
    /\ lastOp' = NoOp
    /\ UNCHANGED <<now, question_locks, question_attempts, question_timers,
                   team_completed_questions, callVars, team_quota_slots,
                   broadcast, question_points, adminVars, team_points, returnedCount,
                   returnedPenalty>>

\* IsQuestionExhausted, then the branch on the method and on the answer.
QuestionIsExhausted(r) ==
    /\ At(r, "IsQuestionExhausted")
    /\ req' = [req EXCEPT ![r] =
                 IF IsQuestionExhausted(question_attempts, req[r].team, req[r].q)
                 THEN Respond(r, "403 attempts exhausted")
                 ELSE IF req[r].method = "POST"
                 THEN IF req[r].correct
                      THEN Goto(r, "MarkQuestionAsCompleted")
                      ELSE Goto(r, "RecordWrongAttempt.select")
                 ELSE IF ~req[r].hasCompleted /\ ~req[r].isLocked
                 THEN Goto(r, "LockQuestion")
                 ELSE Respond(r, "200")]
    /\ lastOp' = NoOp
    /\ UNCHANGED <<now, question_locks, question_attempts, question_timers,
                   team_completed_questions, callVars, team_quota_slots,
                   broadcast, question_points, adminVars, team_points, returnedCount,
                   returnedPenalty>>

\* Correct answer: MarkQuestionAsCompleted (INSERT OR IGNORE).
QuestionMarkCompleted(r) ==
    /\ At(r, "MarkQuestionAsCompleted")
    /\ team_completed_questions' =
           team_completed_questions \cup {Completed(req[r].team, req[r].q)}
    /\ req' = [req EXCEPT ![r] = Goto(r, "AddPointsToTeam")]
    /\ lastOp' = [NoOp EXCEPT !.op = "solve", !.q = req[r].q,
                              !.team = req[r].team]
    /\ UNCHANGED <<now, question_locks, question_attempts, question_timers, callVars,
                   team_quota_slots, broadcast, question_points, adminVars, team_points,
                   returnedCount, returnedPenalty>>

\* Correct answer: AddPointsToTeam(teamID, question.Points).
QuestionAddPoints(r) ==
    /\ At(r, "AddPointsToTeam")
    /\ team_points' = [team_points EXCEPT ![req[r].team] = @ + question_points]
    /\ req' = [req EXCEPT ![r] = Goto(r, "IncrementQuotaCount")]
    /\ lastOp' = NoOp
    /\ UNCHANGED <<now, question_locks, question_attempts, question_timers,
                   team_completed_questions, callVars, team_quota_slots,
                   broadcast, question_points, adminVars, returnedCount,
                   returnedPenalty>>

\* Correct answer: IncrementQuotaCount(teamID); its error is only logged.
QuestionIncrementQuota(r) ==
    /\ At(r, "IncrementQuotaCount")
    /\ team_quota_slots' = IncrementQuotaCountStmt(team_quota_slots, req[r].team)
    /\ req' = [req EXCEPT ![r] = Goto(r, "UnlockQuestion")]
    /\ lastOp' = [NoOp EXCEPT !.op = "incrementCount", !.q = req[r].q,
                              !.team = req[r].team]
    /\ UNCHANGED <<now, question_locks, question_attempts, question_timers,
                   team_completed_questions, callVars, broadcast,
                   question_points, adminVars, team_points, returnedCount,
                   returnedPenalty>>

\* Correct answer: UnlockQuestion(lvl); the three broadcasts follow.
QuestionUnlockSolved(r) ==
    /\ At(r, "UnlockQuestion")
    /\ question_locks' = UnlockQuestionStmt(question_locks, req[r].q).locks
    /\ req' = [req EXCEPT ![r] =
                 [Goto(r, "Broadcast.solved.question_unlocked") EXCEPT
                    !.unlocked = TRUE]]
    /\ lastOp' = NoOp
    /\ UNCHANGED <<now, question_attempts, question_timers, team_completed_questions, callVars,
                   team_quota_slots, broadcast, question_points, adminVars, team_points,
                   returnedCount, returnedPenalty>>

\* Wrong answer: RecordWrongAttempt, first statement (GetQuestionAttempts).
QuestionRecordRead(r) ==
    /\ At(r, "RecordWrongAttempt.select")
    /\ LET attempt == GetQuestionAttempts(question_attempts, req[r].team, req[r].q)
       IN req' = [req EXCEPT ![r] =
                    [Goto(r, "RecordWrongAttempt.upsert") EXCEPT
                       !.att = attempt.wrong_attempts,
                       !.pen = attempt.total_penalty]]
    /\ lastOp' = NoOp
    /\ UNCHANGED <<now, question_locks, question_attempts, question_timers,
                   team_completed_questions, callVars, team_quota_slots,
                   broadcast, question_points, adminVars, team_points, returnedCount,
                   returnedPenalty>>

\* Wrong answer: RecordWrongAttempt, the penalty computed from the record
\* read, the upsert, and the return to the handler.
QuestionRecordUpsert(r) ==
    /\ At(r, "RecordWrongAttempt.upsert")
    /\ LET penalty == Penalty(req[r].att, question_points)
           newAttempts == req[r].att + 1
           newTotalPenalty == req[r].pen + penalty
           attemptsLeft == MaxAttempts - newAttempts
       IN /\ question_attempts' =
                 UpsertAttempt(question_attempts, req[r].team, req[r].q,
                               newAttempts, newTotalPenalty)
          /\ returnedCount' = [returnedCount EXCEPT ![req[r].team] = @ + 1]
          /\ returnedPenalty' =
                 [returnedPenalty EXCEPT ![req[r].team] = @ + penalty]
          /\ req' = [req EXCEPT ![r] =
                       [(IF penalty > 0
                         THEN Goto(r, "DeductPenaltyPoints")
                         ELSE Respond(r, "200")) EXCEPT
                          !.penalty = penalty, !.left = attemptsLeft,
                          !.recorded = TRUE]]
    /\ lastOp' = [NoOp EXCEPT !.op = "wrongAttempt", !.q = req[r].q,
                              !.team = req[r].team]
    /\ UNCHANGED <<now, question_locks, question_timers,
                   team_completed_questions, callVars, team_quota_slots,
                   broadcast, question_points, adminVars, team_points>>

\* Wrong answer: DeductPenaltyPoints, then the branch on attemptsLeft.
QuestionDeductPenalty(r) ==
    /\ At(r, "DeductPenaltyPoints")
    /\ team_points' = [team_points EXCEPT ![req[r].team] = @ - req[r].penalty]
    /\ req' = [req EXCEPT ![r] =
                 IF req[r].left > 0
                 THEN Respond(r, "200")
                 ELSE Goto(r, "UnlockQuestion.exhausted")]
    /\ lastOp' = NoOp
    /\ UNCHANGED <<now, question_locks, question_attempts, question_timers,
                   team_completed_questions, callVars, team_quota_slots,
                   broadcast, question_points, adminVars, returnedCount,
                   returnedPenalty>>

\* Wrong answer, no attempts left: UnlockQuestion(lvl); the broadcast
\* follows.
QuestionUnlockExhausted(r) ==
    /\ At(r, "UnlockQuestion.exhausted")
    /\ question_locks' = UnlockQuestionStmt(question_locks, req[r].q).locks
    /\ req' = [req EXCEPT ![r] =
                 [Goto(r, "Broadcast.exhausted.question_unlocked") EXCEPT
                    !.unlocked = TRUE]]
    /\ lastOp' = NoOp
    /\ UNCHANGED <<now, question_attempts, question_timers, team_completed_questions, callVars,
                   team_quota_slots, broadcast, question_points, adminVars, team_points,
                   returnedCount, returnedPenalty>>

\* GET: LockQuestion(lvl, teamID); its error is only logged, and the
\* broadcast follows when there was none.
QuestionLockQuestion(r) ==
    /\ At(r, "LockQuestion")
    /\ LET res == LockQuestionStmt(question_locks, req[r].q, req[r].team, now)
       IN /\ question_locks' = res.locks
          /\ req' = [req EXCEPT ![r] =
                       IF res.rows = 0
                       THEN Goto(r, "StartQuestionTimer")
                       ELSE Goto(r, "Broadcast.opened.question_locked")]
    /\ lastOp' = NoOp
    /\ UNCHANGED <<now, question_attempts, question_timers, team_completed_questions, callVars,
                   team_quota_slots, broadcast, question_points, adminVars, team_points,
                   returnedCount, returnedPenalty>>

\* GET, after the lock attempt whatever its outcome: StartQuestionTimer
\* inserts the timer row of (team, question) unless there is one. Its SELECT
\* COUNT and its INSERT leave the table as this single step does.
QuestionStartTimer(r) ==
    /\ At(r, "StartQuestionTimer")
    /\ question_timers' =
           question_timers \cup {QuestionTimer(req[r].team, req[r].q)}
    /\ req' = [req EXCEPT ![r] = Respond(r, "200")]
    /\ lastOp' = [NoOp EXCEPT !.op = "startTimer", !.q = req[r].q,
                              !.team = req[r].team]
    /\ UNCHANGED <<now, question_locks, question_attempts,
                   team_completed_questions, callVars, team_quota_slots,
                   broadcast, question_points, adminVars, team_points, returnedCount,
                   returnedPenalty>>

\* The event a request at a Broadcast call passes to it.
EventAt(rq) ==
    CASE rq.pc = "Broadcast.solved.question_unlocked" ->
             Event("question_unlocked", rq.q, 0)
      [] rq.pc = "Broadcast.solved.question_solved" ->
             Event("question_solved", rq.q, rq.team)
      [] rq.pc = "Broadcast.solved.leaderboard_update" ->
             Event("leaderboard_update", 0, 0)
      [] rq.pc = "Broadcast.exhausted.question_unlocked" ->
             Event("question_unlocked", rq.q, 0)
      [] rq.pc = "Broadcast.opened.question_locked" ->
             Event("question_locked", rq.q, rq.team)

\* Faulty variant of AfterBroadcast: the leaderboard update is broadcast
\* before the solve.
AfterBroadcastLeaderboardFirst(rq) ==
    CASE rq.pc = "Broadcast.solved.question_unlocked" ->
             [rq EXCEPT !.pc = "Broadcast.solved.leaderboard_update"]
      [] rq.pc = "Broadcast.solved.leaderboard_update" ->
             [rq EXCEPT !.pc = "Broadcast.solved.question_solved"]
      [] rq.pc = "Broadcast.solved.question_solved" ->
             [rq EXCEPT !.pc = "done", !.status = "302"]
      [] OTHER -> [rq EXCEPT !.pc = "done", !.status = "200"]

\* What follows a Broadcast call: the next Broadcast call or the response.
AfterBroadcast(rq) ==
    CASE rq.pc = "Broadcast.solved.question_unlocked" ->
             [rq EXCEPT !.pc = "Broadcast.solved.question_solved"]
      [] rq.pc = "Broadcast.solved.question_solved" ->
             [rq EXCEPT !.pc = "Broadcast.solved.leaderboard_update"]
      [] rq.pc = "Broadcast.solved.leaderboard_update" ->
             [rq EXCEPT !.pc = "done", !.status = "302"]
      [] rq.pc = "Broadcast.opened.question_locked" ->
             [rq EXCEPT !.pc = "StartQuestionTimer"]
      [] OTHER -> [rq EXCEPT !.pc = "done", !.status = "200"]

BroadcastCalls ==
    {"Broadcast.solved.question_unlocked", "Broadcast.solved.question_solved",
     "Broadcast.solved.leaderboard_update",
     "Broadcast.exhausted.question_unlocked",
     "Broadcast.opened.question_locked"}

\* One ah.Broadcaster.Broadcast call of the handler; requests are served by
\* process 1.
QuestionBroadcast(r) ==
    /\ req[r].pc \in BroadcastCalls
    /\ broadcast' = Broadcast(broadcast, 1, EventAt(req[r]))
    /\ req' = [req EXCEPT ![r] =
                 [AfterBroadcast(req[r]) EXCEPT
                    !.sent = Append(@, EventAt(req[r]).type)]]
    /\ lastOp' = NoOp
    /\ UNCHANGED <<now, question_locks, question_attempts, question_timers,
                   team_completed_questions, callVars, team_quota_slots,
                   question_points, adminVars, team_points, returnedCount,
                   returnedPenalty>>

\* ------------------------- wrong answers of one team on one question
\* The question's points, as stored by the admin.
PointValues == {0, 1, 15, 100}

\* total_penalty after n wrong attempts made one after the other.
RECURSIVE TotalPenaltyAfter(_, _)
TotalPenaltyAfter(n, questionPoints) ==
    IF n = 0 THEN 0
    ELSE TotalPenaltyAfter(n - 1, questionPoints) + Penalty(n - 1, questionPoints)

\* Question 1 is worth one of the given points, team 1 has already made one
\* of the given numbers of wrong attempts on it, one after the other, nothing
\* is solved, and the lock table is as given.
InitQuestion(points, counts, locks) ==
    /\ now = 0
    /\ team_quota_slots = {}
    /\ quotaCall = [r \in Reqs |-> IdleQuotaCall]
    /\ InitBroadcaster
    /\ question_locks = locks
    /\ question_timers = {}
    /\ NewAdminRateLimiter
    /\ team_completed_questions = {}
    /\ tryLockRet = [t \in Teams |-> [q \in Questions |-> "pending"]]
    /\ lastOp = NoOp
    /\ lockCall = [c \in Callers |-> IdleCall]
    /\ req = [r \in Reqs |-> IdleReq]
    /\ question_points \in points
    /\ \E n \in counts :
          LET pen == TotalPenaltyAfter(n, question_points)
          IN /\ question_attempts =
                    IF n = 0 THEN {} ELSE {QuestionAttempt(1, 1, n, pen)}
             /\ team_points = [t \in Teams |-> IF t = 1 THEN 0 - pen ELSE 0]
             /\ returnedCount = [t \in Teams |-> IF t = 1 THEN n ELSE 0]
             /\ returnedPenalty = [t \in Teams |-> IF t = 1 THEN pen ELSE 0]

\* Any points, any number of earlier wrong attempts short of exhaustion, and
\* no lock.
InitSubmit == InitQuestion(PointValues, 0..(MaxAttempts - 1), {})

\* The same, with team 1 holding the lock of question 1 since it opened it.
InitHolding ==
    InitQuestion(PointValues, 0..(MaxAttempts - 1), {QuestionLock(1, 1, 0)})

\* A 100-point question on which team 1 has made no wrong attempt or is one
\* short of exhaustion.
InitGame == InitQuestion({100}, {0, MaxAttempts - 1}, {})

\* POST /hunt/question/1 by team 1 with a wrong answer.
SubmitWrongAnswer(r) == QuestionStart(r, 1, 1, "POST", FALSE)

NextSubmit ==
    \E r \in Reqs :
        \/ SubmitWrongAnswer(r)
        \/ QuestionIsSolvedByTeam(r)
        \/ QuestionQuotaSelect(r)
        \/ QuestionQuotaWrite(r)
        \/ QuestionIsSolvedByAnyone(r)
        \/ QuestionLockPurge(r)
        \/ QuestionLockSelect(r)
        \/ QuestionIsExhausted(r)
        \/ QuestionRecordRead(r)
        \/ QuestionRecordUpsert(r)
        \/ QuestionDeductPenalty(r)
        \/ QuestionUnlockExhausted(r)
        \/ QuestionBroadcast(r)

SpecSubmit == InitSubmit /\ [][NextSubmit]_vars


\* ------------------------------------------------------ attempts: claims
\* The percentages of the schedule, by ordinal of the wrong attempt.
SchedulePercent == <<0, 10, 30, 50, 70>>

\* Request r completes RecordWrongAttempt in this step.
Records(r) ==
    /\ At(r, "RecordWrongAttempt.upsert")
    /\ req'[r].pc # "RecordWrongAttempt.upsert"

\* C8: a RecordWrongAttempt call on a pair that holds n-1 stored wrong
\* attempts (1 <= n <= 5) returns the penalty floor(points * p_n / 100) with
\* p = (0, 10, 30, 50, 70) and 5 - n attempts remaining, and leaves the row
\* with wrong_attempts = n and total_penalty grown by exactly that penalty.
C8_PenaltySchedule ==
    [][\A r \in Reqs :
         LET stored == GetQuestionAttempts(question_attempts, req[r].team, req[r].q)
             n == stored.wrong_attempts + 1
         IN (/\ Records(r)
             /\ stored.wrong_attempts = req[r].att
             /\ stored.total_penalty = req[r].pen
             /\ n \in 1..MaxAttempts)
            => /\ req'[r].penalty = (question_points * SchedulePercent[n]) \div 100
               /\ req'[r].left = MaxAttempts - n
               /\ GetQuestionAttempts(question_attempts', req[r].team, req[r].q)
                    = QuestionAttempt(req[r].team, req[r].q, n,
                                      stored.total_penalty + req'[r].penalty)
      ]_vars

\* The fifth wrong attempt on a 15-point question was charged 10 (70% of 15,
\* truncated) and left no attempts.
C8_Witness ==
    \E r \in Reqs :
        /\ question_points = 15
        /\ req[r].pc = "DeductPenaltyPoints"
        /\ req[r].att = 4
        /\ req[r].penalty = 10
        /\ req[r].left = 0
        /\ \E a \in question_attempts :
              a.wrong_attempts = 5 /\ a.total_penalty = req[r].pen + 10

\* C9: wrong_attempts of a pair never exceeds the exhaustion threshold and no
\* submission is told of a negative number of attempts remaining.
C9_AttemptsCapped ==
    /\ \A a \in question_attempts : a.wrong_attempts <= MaxAttempts
    /\ \A r \in Reqs : req[r].left >= 0

\* C10: once every RecordWrongAttempt call that started has completed, the
\* stored wrong_attempts counts every completed call and the stored
\* total_penalty is the sum of the penalties the calls returned.
C10_NoLostUpdate ==
    (\A r \in Reqs : ~At(r, "RecordWrongAttempt.upsert"))
    => \A t \in Teams :
          /\ GetQuestionAttempts(question_attempts, t, 1).wrong_attempts
               = returnedCount[t]
          /\ GetQuestionAttempts(question_attempts, t, 1).total_penalty
               = returnedPenalty[t]


\* ------------------------------- all teams' requests on one question
Methods == {"GET", "POST"}

\* GET or POST /hunt/question/1 by any team; a POST carries a right or a
\* wrong answer.
OpenOrSubmit(r) ==
    \E t \in Teams, method \in Methods, correct \in BOOLEAN :
        /\ method = "GET" => ~correct
        /\ QuestionStart(r, t, 1, method, correct)

NextGame ==
    \/ Tick
    \/ \E r \in Reqs :
          \/ OpenOrSubmit(r)
          \/ QuestionIsSolvedByTeam(r)
          \/ QuestionQuotaSelect(r)
          \/ QuestionQuotaWrite(r)
          \/ QuestionIsSolvedByAnyone(r)
          \/ QuestionLockPurge(r)
          \/ QuestionLockSelect(r)
          \/ QuestionIsExhausted(r)
          \/ QuestionMarkCompleted(r)
          \/ QuestionAddPoints(r)
          \/ QuestionIncrementQuota(r)
          \/ QuestionUnlockSolved(r)
          \/ QuestionRecordRead(r)
          \/ QuestionRecordUpsert(r)
          \/ QuestionDeductPenalty(r)
          \/ QuestionUnlockExhausted(r)
          \/ QuestionLockQuestion(r)
          \/ QuestionStartTimer(r)
          \/ QuestionBroadcast(r)

SpecGame == InitGame /\ [][NextGame]_vars

\* C4: an answer is recorded, as a solve or as a wrong attempt, only when no
\* other team holds a lock of the question that is not stale.
C4_OneTeamAtATime ==
    lastOp.op \in {"solve", "wrongAttempt"}
    => ~\E l \in question_locks :
           /\ l.question_id = lastOp.q
           /\ l.locked_by_team_id # lastOp.team
           /\ ~IsStale(l, now)


\* ------------------------------------------------- an abandoned lock
\* The response has been sent; the client may send its next request.
Close(r) ==
    /\ At(r, "done")
    /\ req' = [req EXCEPT ![r] = IdleReq]
    /\ lastOp' = NoOp
    /\ UNCHANGED <<now, question_locks, question_attempts, question_timers,
                   team_completed_questions, callVars, team_quota_slots, broadcast, question_points, adminVars,
                   team_points, returnedCount, returnedPenalty>>

\* Team 1 opened question 1 at time 0, holds its lock, and is not heard of
\* again.
InitAbandon ==
    /\ now = 0
    /\ team_quota_slots = {}
    /\ quotaCall = [r \in Reqs |-> IdleQuotaCall]
    /\ InitBroadcaster
    /\ question_locks = {QuestionLock(1, 1, 0)}
    /\ question_attempts = {}
    /\ question_timers = {}
    /\ NewAdminRateLimiter
    /\ team_completed_questions = {}
    /\ tryLockRet = [t \in Teams |-> [q \in Questions |-> "pending"]]
    /\ lastOp = NoOp
    /\ lockCall = [c \in Callers |-> IdleCall]
    /\ req = [r \in Reqs |-> IdleReq]
    /\ question_points = 100
    /\ team_points = [t \in Teams |-> 0]
    /\ returnedCount = [t \in Teams |-> 0]
    /\ returnedPenalty = [t \in Teams |-> 0]

\* GET /hunt/question/1 by team 2.
OpenQuestion(r) == QuestionStart(r, 2, 1, "GET", FALSE)

\* The steps of team 2's request r, and its next request after the response.
Retrying(r) ==
    \/ OpenQuestion(r)
    \/ QuestionIsSolvedByTeam(r)
    \/ QuestionQuotaSelect(r)
    \/ QuestionQuotaWrite(r)
    \/ QuestionIsSolvedByAnyone(r)
    \/ QuestionLockPurge(r)
    \/ QuestionLockSelect(r)
    \/ QuestionIsExhausted(r)
    \/ QuestionLockQuestion(r)
    \/ QuestionStartTimer(r)
    \/ QuestionBroadcast(r)
    \/ Close(r)

NextAbandon ==
    \/ Tick
    \/ CleanupStaleLocks
    \/ \E r \in Reqs : Retrying(r)

\* Time passes, and team 2's requests are served and repeated.
SpecAbandon ==
    /\ InitAbandon
    /\ [][NextAbandon]_vars
    /\ WF_vars(Tick)
    /\ \A r \in Reqs : WF_vars(Retrying(r))

HeldBy(t) ==
    \E l \in question_locks : l.question_id = 1 /\ l.locked_by_team_id = t

\* C6: a lock that team 1 acquired and never releases does not starve team
\* 2: team 2, which keeps opening the question, eventually holds the lock.
C6_AbandonedLockIsTakenOver == HeldBy(1) ~> HeldBy(2)

\* Team 2 holds the lock, acquired after team 1's lock had gone stale.
C6_Witness ==
    \E l \in question_locks :
        /\ l.question_id = 1
        /\ l.locked_by_team_id = 2
        /\ l.locked_at > StaleSeconds


\* ---------------------- wrong answers of one team, request after request
\* Team 1 keeps sending wrong answers to question 1: a client sends its next
\* request once the previous one was answered.
NextResubmit ==
    \/ NextSubmit
    \/ \E r \in Reqs : Close(r)

SpecResubmit == InitSubmit /\ [][NextResubmit]_vars

\* C11: no step lowers the stored wrong_attempts or total_penalty of a pair
\* (no administrative unlock and no team deletion takes place here).
C11_AttemptsNeverDecrease ==
    [][\A t \in Teams :
         LET before == GetQuestionAttempts(question_attempts, t, 1)
             after == GetQuestionAttempts(question_attempts', t, 1)
         IN /\ after.wrong_attempts >= before.wrong_attempts
            /\ after.total_penalty >= before.total_penalty
      ]_vars


\* ------------------------------ wrong answers of the team holding the lock
SpecExhaust == InitHolding /\ [][NextSubmit]_vars

\* C12: a wrong answer that was recorded has released the lock and broadcast
\* question_unlocked when it left no attempts, and has done neither when it
\* left some.
C12_UnlockExactlyAtExhaustion ==
    \A r \in Reqs :
        (req[r].pc = "done" /\ req[r].recorded)
        => /\ req[r].left = 0 =>
                 /\ req[r].unlocked
                 /\ req[r].sent = <<"question_unlocked">>
                 /\ LockRows(question_locks, req[r].q) = {}
           /\ req[r].left > 0 => (~req[r].unlocked /\ req[r].sent = <<>>)


\* ------------------------------------------------- Broadcaster: goroutines
\* What the broadcaster's steps leave alone: the store and the requests.
storeVars == <<now, question_locks, question_attempts, question_timers,
               team_completed_questions, tryLockRet, lockCall,
               question_points, adminVars, team_points, req, returnedCount,
               returnedPenalty, team_quota_slots, quotaCall>>

\* broadcastToClients(event) on process p starts: it will try every
\* registered client, in the order the map iteration yields them.
StartDispatch(p, event) ==
    IF clients[p] = {} THEN IdleDispatch
    ELSE [busy |-> TRUE, event |-> event, todo |-> clients[p]]

\* Faulty variant of RunTakeEvent: with a relay, two goroutines are started
\* to publish the event.
RunTakeEventPublishingTwice(p) ==
    /\ ~dispatching[p]["run"].busy
    /\ broadcast[p] # <<>>
    /\ broadcast' = [broadcast EXCEPT ![p] = Tail(@)]
    /\ publishing' = IF redisClient
                     THEN [publishing EXCEPT
                             ![p] = @ \o <<Head(broadcast[p]),
                                           Head(broadcast[p])>>]
                     ELSE publishing
    /\ dispatching' = [dispatching EXCEPT
                         ![p]["run"] = StartDispatch(p, Head(broadcast[p]))]
    /\ lastOp' = NoOp
    /\ UNCHANGED <<storeVars, registryVars, clientQueue, relayed, emitted, published,
                   redisClient, clients, delivered, skipped>>

\* run, case event := <-b.broadcast: with a relay, a goroutine is started to
\* publish the event; then broadcastToClients(event) starts.
RunTakeEvent(p) ==
    /\ ~dispatching[p]["run"].busy
    /\ broadcast[p] # <<>>
    /\ broadcast' = [broadcast EXCEPT ![p] = Tail(@)]
    /\ publishing' = IF redisClient
                     THEN [publishing EXCEPT
                             ![p] = Append(@, Head(broadcast[p]))]
                     ELSE publishing
    /\ dispatching' = [dispatching EXCEPT
                         ![p]["run"] = StartDispatch(p, Head(broadcast[p]))]
    /\ lastOp' = NoOp
    /\ UNCHANGED <<storeVars, registryVars, clientQueue, relayed, emitted, published,
                   redisClient, clients, delivered, skipped>>

\* Faulty variant of DispatchTo: the send has no timeout case and waits for
\* room on the client's Channel.
DispatchToWhenRoom(p, d, c) ==
    LET call == dispatching[p][d]
        rest == call.todo \ {c}
    IN /\ call.busy
       /\ c \in call.todo
       /\ Len(clientQueue[p][c]) < ClientBuffer
       /\ clientQueue' = [clientQueue EXCEPT ![p][c] = Append(@, call.event)]
       /\ delivered' = [delivered EXCEPT ![p][c] = Append(@, call.event)]
       /\ dispatching' = [dispatching EXCEPT
                            ![p][d] = IF rest = {} THEN IdleDispatch
                                      ELSE [call EXCEPT !.todo = rest]]
       /\ lastOp' = NoOp
       /\ UNCHANGED <<storeVars, registryVars, broadcast, publishing, relayed,
                      emitted, published, redisClient, clients, skipped>>

\* Faulty variant of DispatchTo: the dispatcher gives up on the remaining
\* clients once one client's Channel has timed out.
DispatchToUntilTimeout(p, d, c) ==
    LET call == dispatching[p][d]
        room == Len(clientQueue[p][c]) < ClientBuffer
        rest == IF room THEN call.todo \ {c} ELSE {}
    IN /\ call.busy
       /\ c \in call.todo
       /\ clientQueue' = [clientQueue EXCEPT
                            ![p][c] = Send(@, ClientBuffer, call.event)]
       /\ delivered' = IF room
                       THEN [delivered EXCEPT ![p][c] = Append(@, call.event)]
                       ELSE delivered
       /\ skipped' = IF room
                     THEN skipped
                     ELSE [skipped EXCEPT ![p][c] = Append(@, call.event)]
       /\ dispatching' = [dispatching EXCEPT
                            ![p][d] = IF rest = {} THEN IdleDispatch
                                      ELSE [call EXCEPT !.todo = rest]]
       /\ lastOp' = NoOp
       /\ UNCHANGED <<storeVars, registryVars, broadcast, publishing, relayed, emitted,
                      published, redisClient, clients>>

\* broadcastToClients, one iteration of the loop over b.clients: the event is
\* put on the client's Channel, or the send times out after 100 ms because
\* the Channel stayed full, and the loop goes on to the next client.
DispatchTo(p, d, c) ==
    LET call == dispatching[p][d]
        room == Len(clientQueue[p][c]) < ClientBuffer
        rest == call.todo \ {c}
    IN /\ call.busy
       /\ c \in call.todo
       /\ clientQueue' = [clientQueue EXCEPT
                            ![p][c] = Send(@, ClientBuffer, call.event)]
       /\ delivered' = IF room
                       THEN [delivered EXCEPT ![p][c] = Append(@, call.event)]
                       ELSE delivered
       /\ skipped' = IF room
                     THEN skipped
                     ELSE [skipped EXCEPT ![p][c] = Append(@, call.event)]
       /\ dispatching' = [dispatching EXCEPT
                            ![p][d] = IF rest = {} THEN IdleDispatch
                                      ELSE [call EXCEPT !.todo = rest]]
       /\ lastOp' = NoOp
       /\ UNCHANGED <<storeVars, registryVars, broadcast, publishing, relayed, emitted,
                      published, redisClient, clients>>

\* SSEHandler, case event := <-client.Channel: the client's connection takes
\* the next event off the Channel and writes it to the response.
ClientReceive(p, c) ==
    /\ clientQueue[p][c] # <<>>
    /\ clientQueue' = [clientQueue EXCEPT ![p][c] = Tail(@)]
    /\ lastOp' = NoOp
    /\ UNCHANGED <<storeVars, registryVars, broadcast, dispatching, publishing, relayed,
                   emitted, published, redisClient, clients, delivered,
                   skipped>>

\* The sequence without its i-th element.
RemoveAt(seq, i) ==
    [j \in 1..(Len(seq) - 1) |-> IF j < i THEN seq[j] ELSE seq[j + 1]]

\* publishToRedis in one of the goroutines the run loop of process p has
\* started: the event is published on hunt_events, and the relay delivers it
\* to the subscription of every process, the publisher's included.
PublishToRedis(p, i) ==
    /\ i \in 1..Len(publishing[p])
    /\ published' = Append(published, [from |-> p, event |-> publishing[p][i]])
    /\ relayed' = [p2 \in Procs |-> Append(relayed[p2], publishing[p][i])]
    /\ publishing' = [publishing EXCEPT ![p] = RemoveAt(@, i)]
    /\ lastOp' = NoOp
    /\ UNCHANGED <<storeVars, registryVars, broadcast, clientQueue, dispatching, emitted,
                   redisClient, clients, delivered, skipped>>

\* subscribeToRedis, one iteration of for msg := range ch: the message is
\* decoded and broadcastToClients(event) starts; nothing is published.
SubscriberTake(p) ==
    /\ redisClient
    /\ ~dispatching[p]["relay"].busy
    /\ relayed[p] # <<>>
    /\ relayed' = [relayed EXCEPT ![p] = Tail(@)]
    /\ dispatching' = [dispatching EXCEPT
                         ![p]["relay"] = StartDispatch(p, Head(relayed[p]))]
    /\ lastOp' = NoOp
    /\ UNCHANGED <<storeVars, registryVars, broadcast, clientQueue, publishing, emitted,
                   published, redisClient, clients, delivered, skipped>>

\* ------------------------------------------- a correct answer, end to end
\* Team 1 holds the lock of question 1, worth 100 points, and has made no
\* wrong attempt on it.
InitSolve == InitQuestion({100}, {0}, {QuestionLock(1, 1, 0)})

\* POST /hunt/question/1 by team 1 with the correct answer, in request 1.
SubmitCorrectAnswer == QuestionStart(1, 1, 1, "POST", TRUE)

NextSolve ==
    \/ Tick
    \/ SubmitCorrectAnswer
    \/ QuestionIsSolvedByTeam(1)
    \/ QuestionQuotaSelect(1)
    \/ QuestionQuotaWrite(1)
    \/ QuestionIsSolvedByAnyone(1)
    \/ QuestionLockPurge(1)
    \/ QuestionLockSelect(1)
    \/ QuestionIsExhausted(1)
    \/ QuestionMarkCompleted(1)
    \/ QuestionAddPoints(1)
    \/ QuestionIncrementQuota(1)
    \/ QuestionUnlockSolved(1)
    \/ QuestionBroadcast(1)
    \/ RunTakeEvent(1)
    \/ \E c \in Clients : DispatchTo(1, "run", c)
    \/ \E c \in Clients : ClientReceive(1, c)

SpecSolve == InitSolve /\ [][NextSolve]_vars

\* The three events of an accepted answer of team t on question q.
SolveEvents(q, t) ==
    <<Event("question_unlocked", q, 0), Event("question_solved", q, t),
      Event("leaderboard_update", 0, 0)>>

\* s is an initial part of t.
IsPrefix(s, t) == Len(s) <= Len(t) /\ \A i \in 1..Len(s) : s[i] = t[i]

\* Process p has nothing left to dispatch.
Drained(p) ==
    /\ broadcast[p] = <<>>
    /\ \A d \in Dispatchers : ~dispatching[p][d].busy

\* C13: when a correct answer is accepted, the question's lock has been
\* released and exactly three events have been broadcast, question_unlocked,
\* question_solved and leaderboard_update in that order; a client that stays
\* registered and was never found saturated receives them in that order, all
\* three once the dispatch is over.
C13_SolveBroadcastsThreeInOrder ==
    /\ (req[1].pc = "done" /\ req[1].status = "302")
       => /\ req[1].unlocked
          /\ LockRows(question_locks, 1) = {}
          /\ req[1].sent = <<"question_unlocked", "question_solved",
                             "leaderboard_update">>
    /\ \A c \in Clients :
          skipped[1][c] = <<>>
          => /\ IsPrefix(delivered[1][c], SolveEvents(1, 1))
             /\ (req[1].pc = "done" /\ req[1].status = "302" /\ Drained(1))
                => delivered[1][c] = SolveEvents(1, 1)

\* The answer was accepted, the dispatch is over, and a client that was never
\* found saturated has taken the three events off its Channel.
C13_Witness ==
    /\ req[1].pc = "done"
    /\ req[1].status = "302"
    /\ Drained(1)
    /\ \E c \in Clients :
          /\ skipped[1][c] = <<>>
          /\ delivered[1][c] = SolveEvents(1, 1)
          /\ clientQueue[1][c] = <<>>


\* --------------------------------------------------- quota slot of a team
\* What the quota calls leave alone.
nonQuotaVars == <<question_locks, question_attempts, question_timers,
                  team_completed_questions, tryLockRet, lockCall,
                  question_points, adminVars, team_points, req, returnedCount,
                  returnedPenalty, broadcast, relayVars>>

\* GetQuotaSlot(t) returns the slot; the call had read the given stored slot
\* at the given time.
ReturnedSlot(t, slot, stored, readAt) ==
    [NoOp EXCEPT !.op = "getSlot", !.team = t, !.calledAt = readAt,
                 !.ret = {slot}, !.read = {stored}]

\* GetQuotaSlot(t) by request c, first statement: the SELECT and the checks
\* on what it found. A stored slot that has not expired is returned as it is;
\* otherwise CreateQuotaSlot or ResetQuotaSlot is called.
GetQuotaSlotSelect(c, t) ==
    LET rows == SlotRows(team_quota_slots, t)
        slot == CHOOSE s \in rows : TRUE
    IN /\ quotaCall[c].pc = "idle"
       /\ IF rows = {}
          THEN /\ quotaCall' = [quotaCall EXCEPT
                                  ![c] = [IdleQuotaCall EXCEPT
                                            !.pc = "create", !.team = t,
                                            !.calledAt = now]]
               /\ lastOp' = NoOp
          ELSE IF SlotExpired(slot.current_slot_start, now)
          THEN /\ quotaCall' = [quotaCall EXCEPT
                                  ![c] = [pc |-> "reset", team |-> t,
                                          calledAt |-> now, found |-> TRUE,
                                          start |-> slot.current_slot_start,
                                          count |-> slot.questions_solved_in_slot]]
               /\ lastOp' = NoOp
          ELSE /\ quotaCall' = quotaCall
               /\ lastOp' = ReturnedSlot(t, slot, slot, now)
       /\ UNCHANGED <<now, team_quota_slots, nonQuotaVars>>

\* GetQuotaSlot by request c, second statement: the INSERT of
\* CreateQuotaSlot or the UPDATE of ResetQuotaSlot, with the time read just
\* before it; the new slot is returned, or the INSERT's error.
GetQuotaSlotWrite(c) ==
    LET t == quotaCall[c].team
        res == CreateQuotaSlotStmt(team_quota_slots, t, now)
    IN /\ quotaCall[c].pc \in {"create", "reset"}
       /\ quotaCall' = [quotaCall EXCEPT ![c] = IdleQuotaCall]
       /\ IF quotaCall[c].pc = "reset"
          THEN /\ team_quota_slots' = ResetQuotaSlotStmt(team_quota_slots, t, now)
               /\ lastOp' = ReturnedSlot(t, QuotaSlot(t, now, 0),
                                         QuotaSlot(t, quotaCall[c].start,
                                                   quotaCall[c].count),
                                         quotaCall[c].calledAt)
          ELSE /\ team_quota_slots' = res.slots
               /\ lastOp' = IF res.err
                            THEN [NoOp EXCEPT !.op = "getSlot", !.team = t,
                                              !.result = "error"]
                            ELSE [NoOp EXCEPT !.op = "getSlot", !.team = t,
                                              !.calledAt = quotaCall[c].calledAt,
                                              !.ret = {QuotaSlot(t, now, 0)}]
       /\ UNCHANGED <<now, nonQuotaVars>>

\* IncrementQuotaCount(t), for a solve of team t that has been confirmed;
\* solves are confirmed while the team's counter is below the limit.
IncrementQuotaCount(t) ==
    /\ \E s \in SlotRows(team_quota_slots, t) :
          s.questions_solved_in_slot < QuotaLimit
    /\ team_quota_slots' = IncrementQuotaCountStmt(team_quota_slots, t)
    /\ lastOp' = [NoOp EXCEPT !.op = "incrementCount", !.team = t]
    /\ UNCHANGED <<now, quotaCall, nonQuotaVars>>

\* The counters a slot starts the run with: none, seven, the limit.
SlotCounts == {0, 7, QuotaLimit}

\* The starts a slot begins the run with: a slot that expires at the first
\* tick of the clock, and a slot that was started just now.
SlotStarts == {TickSeconds - SlotDuration, 0}

\* Team 1 has no slot yet, or a slot with one of the starts and counters.
InitQuota ==
    /\ now = 0
    /\ \/ team_quota_slots = {}
       \/ \E start \in SlotStarts, count \in SlotCounts :
             team_quota_slots = {QuotaSlot(1, start, count)}
    /\ quotaCall = [r \in Reqs |-> IdleQuotaCall]
    /\ InitBroadcaster
    /\ question_locks = {}
    /\ question_attempts = {}
    /\ question_timers = {}
    /\ NewAdminRateLimiter
    /\ team_completed_questions = {}
    /\ tryLockRet = [t \in Teams |-> [q \in Questions |-> "pending"]]
    /\ lastOp = NoOp
    /\ lockCall = [c \in Callers |-> IdleCall]
    /\ req = [r \in Reqs |-> IdleReq]
    /\ question_points = 100
    /\ team_points = [t \in Teams |-> 0]
    /\ returnedCount = [t \in Teams |-> 0]
    /\ returnedPenalty = [t \in Teams |-> 0]

NextQuota ==
    \/ Tick
    \/ \E c \in Reqs : GetQuotaSlotSelect(c, 1)
    \/ \E c \in Reqs : GetQuotaSlotWrite(c)
    \/ IncrementQuotaCount(1)

SpecQuota == InitQuota /\ [][NextQuota]_vars

\* C14: a GetQuotaSlot call that finds a stored slot rolls it over exactly
\* when now - current_slot_start >= slot_duration at the read: it then stores
\* and returns counter 0 and start now; otherwise it returns the stored slot
\* and changes nothing.
C14_RolloverExactlyAtExpiry ==
    [][\A c \in Reqs :
         LET rows == SlotRows(team_quota_slots, 1)
             slot == CHOOSE s \in rows : TRUE
             reads == /\ quotaCall[c].pc = "idle"
                      /\ rows # {}
                      /\ \/ quotaCall'[c].pc # "idle"
                         \/ /\ lastOp'.op = "getSlot"
                            /\ quotaCall' = quotaCall
             resets == /\ quotaCall[c].pc = "reset"
                       /\ quotaCall'[c].pc = "idle"
         IN /\ reads =>
                 IF now - slot.current_slot_start >= SlotDuration
                 THEN /\ quotaCall'[c].pc = "reset"
                      /\ team_quota_slots' = team_quota_slots
                 ELSE /\ lastOp'.ret = {slot}
                      /\ quotaCall'[c].pc = "idle"
                      /\ team_quota_slots' = team_quota_slots
            /\ resets =>
                 /\ now - quotaCall[c].start >= SlotDuration
                 /\ lastOp'.ret = {QuotaSlot(1, now, 0)}
                 /\ SlotRows(team_quota_slots', 1) = {QuotaSlot(1, now, 0)}
      ]_vars

\* A call has just returned counter 0 for a slot that it had read, exactly
\* one duration after the slot's start, with counter 7.
C14_Witness ==
    /\ lastOp.op = "getSlot"
    /\ lastOp.ret = {QuotaSlot(1, now, 0)}
    /\ now = TickSeconds
    /\ team_quota_slots = {QuotaSlot(1, now, 0)}
    /\ lastOp.read = {QuotaSlot(1, TickSeconds - SlotDuration, 7)}
    /\ lastOp.calledAt = TickSeconds

\* C16: the rollover is atomic with respect to concurrent GetQuotaSlot and
\* IncrementQuotaCount calls: a reset is applied to an expired slot only, so
\* that an increment applied after the reset of a slot is never erased by a
\* late reset of a reader that had seen the slot expired.
C16_NoLateReset ==
    [][\A c \in Reqs :
         (quotaCall[c].pc = "reset" /\ quotaCall'[c].pc = "idle")
         => \A s \in SlotRows(team_quota_slots, quotaCall[c].team) :
               \/ SlotExpired(s.current_slot_start, now)
               \/ s.questions_solved_in_slot = 0
      ]_vars

\* C38: a GetQuotaSlot call returns a slot without error, also when it found
\* no row and another first access of the team ran at the same time, and the
\* team has exactly one row afterwards; a slot it created has counter 0.
C38_FirstAccessReturnsSlot ==
    lastOp.op = "getSlot"
    => /\ lastOp.result # "error"
       /\ Cardinality(lastOp.ret) = 1
       /\ Cardinality(SlotRows(team_quota_slots, lastOp.team)) = 1
       /\ lastOp.read = {} => \A s \in lastOp.ret : s.questions_solved_in_slot = 0


\* ------------------------------------- concurrent correct answers: quota
\* POST /hunt/question/1 by team 1 with the correct answer, in any request.
SubmitCorrectAnswers(r) == QuestionStart(r, 1, 1, "POST", TRUE)

NextSolveTwice ==
    \E r \in Reqs :
        \/ SubmitCorrectAnswers(r)
        \/ QuestionIsSolvedByTeam(r)
        \/ QuestionQuotaSelect(r)
        \/ QuestionQuotaWrite(r)
        \/ QuestionIsSolvedByAnyone(r)
        \/ QuestionLockPurge(r)
        \/ QuestionLockSelect(r)
        \/ QuestionIsExhausted(r)
        \/ QuestionMarkCompleted(r)
        \/ QuestionAddPoints(r)
        \/ QuestionIncrementQuota(r)
        \/ QuestionUnlockSolved(r)
        \/ QuestionBroadcast(r)

SpecSolveTwice == InitSolve /\ [][NextSolveTwice]_vars

\* The questions team t has solved.
SolvedBy(t) == {c \in team_completed_questions : c.team_id = t}

\* C15: every confirmed solve increments the team's questions_solved_in_slot
\* exactly once, and only after the completion is recorded: within a slot
\* that started empty the counter never exceeds the number of the team's
\* recorded solves, and equals it once the requests have been served.
C15_OneIncrementPerSolve ==
    \A t \in Teams :
        \A s \in SlotRows(team_quota_slots, t) :
            /\ s.questions_solved_in_slot <= Cardinality(SolvedBy(t))
            /\ (\A r \in Reqs : req[r].pc \in {"idle", "done"})
               => s.questions_solved_in_slot = Cardinality(SolvedBy(t))


\* -------------------------------------------- one producer, many clients
\* The k-th event of the producer: question k was opened by team 1. The
\* question id tells the producer's events apart.
ProducerEvent(k) == Event("question_locked", k, 1)

\* The producer, on process 1, calls Broadcast with its next event; it has
\* at most n events to broadcast.
EmitUpTo(n) ==
    /\ Len(emitted) < n
    /\ emitted' = Append(emitted,
                         [event |-> ProducerEvent(Len(emitted) + 1),
                          queued |-> Len(broadcast[1]) < BroadcastBuffer])
    /\ broadcast' = Broadcast(broadcast, 1, ProducerEvent(Len(emitted) + 1))
    /\ lastOp' = NoOp
    /\ UNCHANGED <<storeVars, registryVars, clientQueue, dispatching, publishing, relayed,
                   published, redisClient, clients, delivered, skipped>>

\* A quiet store: nothing is locked, attempted or solved, no request is being
\* served.
InitStore ==
    /\ now = 0
    /\ team_quota_slots = {}
    /\ quotaCall = [r \in Reqs |-> IdleQuotaCall]
    /\ question_locks = {}
    /\ question_attempts = {}
    /\ question_timers = {}
    /\ NewAdminRateLimiter
    /\ team_completed_questions = {}
    /\ tryLockRet = [t \in Teams |-> [q \in Questions |-> "pending"]]
    /\ lastOp = NoOp
    /\ lockCall = [c \in Callers |-> IdleCall]
    /\ req = [r \in Reqs |-> IdleReq]
    /\ question_points = 100
    /\ team_points = [t \in Teams |-> 0]
    /\ returnedCount = [t \in Teams |-> 0]
    /\ returnedPenalty = [t \in Teams |-> 0]

InitDispatch == InitStore /\ InitBroadcaster

Emit == EmitUpTo(NumEvents)

NextDispatch ==
    \/ Emit
    \/ RunTakeEvent(1)
    \/ \E c \in Clients : DispatchTo(1, "run", c)
    \/ \E c \in Clients : ClientReceive(1, c)

SpecDispatch == InitDispatch /\ [][NextDispatch]_vars

\* The last element of a sequence is e.
EndsWith(seq, e) == seq # <<>> /\ seq[Len(seq)] = e

\* C17: during the dispatch of one event, a registered client whose Channel
\* is full is skipped for that event, and every other registered client whose
\* Channel has room receives it: each client the dispatch turns to gets the
\* event if and only if it has room, and when the dispatch ends every
\* registered client has been turned to.
C17_SaturatedClientIsSkipped ==
    [][\A p \in Procs, d \in Dispatchers :
         LET call == dispatching[p][d]
         IN /\ \A c \in Clients :
                 (call.busy /\ c \in call.todo
                  /\ (~dispatching'[p][d].busy
                      \/ c \notin dispatching'[p][d].todo))
                 => IF Len(clientQueue[p][c]) < ClientBuffer
                    THEN /\ clientQueue'[p][c] =
                                Append(clientQueue[p][c], call.event)
                         /\ skipped'[p][c] = skipped[p][c]
                    ELSE /\ clientQueue'[p][c] = clientQueue[p][c]
                         /\ skipped'[p][c] = Append(skipped[p][c], call.event)
            /\ (call.busy /\ ~dispatching'[p][d].busy)
               => \A c \in clients[p] :
                     \/ EndsWith(delivered'[p][c], call.event)
                     \/ EndsWith(skipped'[p][c], call.event)
      ]_vars

\* A dispatch has just ended in which one client was skipped, its Channel
\* being full, and another client received the event.
C17_Witness ==
    /\ ~dispatching[1]["run"].busy
    /\ \E c1, c2 \in clients[1], k \in 1..NumEvents :
          /\ EndsWith(skipped[1][c1], ProducerEvent(k))
          /\ Len(clientQueue[1][c1]) = ClientBuffer
          /\ EndsWith(delivered[1][c2], ProducerEvent(k))
          /\ EndsWith(clientQueue[1][c2], ProducerEvent(k))


\* ------------------------------------------------ relay between processes
\* Client 1 is connected to process 1, where the producer runs; the other
\* clients are connected to process 2.
RelayClients ==
    [p \in Procs |-> IF p = 1 THEN {1} ELSE IF p = 2 THEN Clients \ {1} ELSE {}]

\* Every process has connected to the relay at start.
InitRelay == InitStore /\ NewBroadcaster(TRUE, RelayClients)

EmitRelayed == EmitUpTo(NumRelayEvents)

NextRelay ==
    \/ EmitRelayed
    \/ \E p \in Procs : RunTakeEvent(p)
    \/ \E p \in Procs : \E i \in 1..NumRelayEvents : PublishToRedis(p, i)
    \/ \E p \in Procs : SubscriberTake(p)
    \/ \E p \in Procs, d \in Dispatchers, c \in Clients : DispatchTo(p, d, c)
    \/ \E p \in Procs, c \in Clients : ClientReceive(p, c)

SpecRelay == InitRelay /\ [][NextRelay]_vars

\* The events the producer's Broadcast calls have put on the broadcast
\* channel, in call order.
RECURSIVE QueuedOf(_)
QueuedOf(calls) ==
    IF calls = <<>> THEN <<>>
    ELSE IF Head(calls).queued
    THEN <<Head(calls).event>> \o QueuedOf(Tail(calls))
    ELSE QueuedOf(Tail(calls))

\* s can be obtained from t by leaving elements out.
RECURSIVE IsSubsequence(_, _)
IsSubsequence(s, t) ==
    IF s = <<>> THEN TRUE
    ELSE IF t = <<>> THEN FALSE
    ELSE IF Head(s) = Head(t) THEN IsSubsequence(Tail(s), Tail(t))
    ELSE IsSubsequence(s, Tail(t))

\* C18: the events of a single producer that were placed in a client's
\* Channel appear there in emission order: they are an order-preserving
\* subsequence of the emitted sequence, with and without the relay.
C18_ClientSeesEmissionOrder ==
    \A p \in Procs, c \in Clients :
        IsSubsequence(delivered[p][c], QueuedOf(emitted))

\* The events in a sequence of published messages.
EventsOf(messages) == [i \in 1..Len(messages) |-> messages[i].event]

\* C19: with the relay configured, a process publishes the events broadcast
\* on it in the order they were broadcast.
C19_PublishedInBroadcastOrder ==
    redisClient => IsPrefix(EventsOf(published), QueuedOf(emitted))


\* The goroutines of every process keep running: the run loop and the
\* subscriber take what is waiting for them, a started publish is carried out
\* and delivered by the relay, and a send to a client's Channel ends, with
\* the event queued or after the timeout. Clients read at any pace or not at
\* all.
FairRelay ==
    \A p \in Procs :
        /\ WF_vars(RunTakeEvent(p))
        /\ WF_vars(\E i \in 1..NumRelayEvents : PublishToRedis(p, i))
        /\ WF_vars(SubscriberTake(p))
        /\ WF_vars(\E d \in Dispatchers, c \in Clients : DispatchTo(p, d, c))

\* Every client is connected to process 2; the producer runs on process 1.
ClientsOfSecond == [p \in Procs |-> IF p = 2 THEN Clients ELSE {}]

InitFanOut == InitStore /\ NewBroadcaster(TRUE, ClientsOfSecond)

SpecFanOut == InitFanOut /\ [][NextRelay]_vars /\ FairRelay

\* The elements of a sequence.
Range(seq) == {seq[i] : i \in 1..Len(seq)}

\* The dispatch on process p has turned to client c with event e: the event
\* was put on the client's Channel or the client was skipped for it.
Offered(p, c, e) == e \in Range(delivered[p][c]) \cup Range(skipped[p][c])

\* The producer's k-th event was put on the broadcast channel of process 1.
Queued(k) == Len(emitted) >= k /\ emitted[k].queued

\* C20: with the relay configured, an event broadcast on process 1 is
\* eventually dispatched to every client registered on process 2, and no
\* process publishes an event that it received from the relay: every
\* broadcast event is published exactly once, by the process it was
\* broadcast on.
C20_FanOutWithoutRepublish ==
    /\ [](/\ \A m \in 1..Len(published) :
               /\ published[m].from = 1
               /\ published[m].event \in Range(QueuedOf(emitted))
               /\ \A n \in 1..Len(published) :
                     published[n].event = published[m].event => n = m
          /\ \A p \in Procs \ {1} : publishing[p] = <<>>)
    /\ \A k \in 1..NumRelayEvents :
          Queued(k) ~> (/\ ProducerEvent(k) \in Range(EventsOf(published))
                        /\ \A c \in clients[2] :
                              Offered(2, c, ProducerEvent(k)))

\* Every event of the producer has been published once and has reached the
\* Channel of a client of process 2.
C20_Witness ==
    /\ Len(published) = NumRelayEvents
    /\ clients[2] # {}
    /\ \A k \in 1..NumRelayEvents :
          \A c \in clients[2] : ProducerEvent(k) \in Range(delivered[2][c])


\* ------------------------------------------- connections and the registry
\* The broadcaster's state that registration and the connection handlers
\* leave alone.
dispatchVars == <<broadcast, dispatching, publishing, relayed, emitted,
                  published, redisClient, delivered, skipped>>

\* The store apart from the lock table, and the requests.
nonLockVars == <<now, question_attempts, question_timers,
                 team_completed_questions,
                 tryLockRet, lockCall, question_points, adminVars, team_points, req,
                 returnedCount, returnedPenalty, team_quota_slots,
                 quotaCall>>

\* SSEHandler for a new connection of client c to process p, up to
\* RegisterClient: the client, with an empty Channel, is put on b.register.
SSEConnect(p, c) ==
    /\ conn[p][c].pc = "idle"
    /\ register' = [register EXCEPT ![p] = Append(@, c)]
    /\ conn' = [conn EXCEPT ![p][c].pc = "connected"]
    /\ lastOp' = NoOp
    /\ UNCHANGED <<storeVars, dispatchVars, clientQueue, clients, unregister,
                   closed>>

\* SSEHandler: the connected event is written and flushed.
SSEWriteConnected(p, c) ==
    /\ conn[p][c].pc = "connected"
    /\ conn' = [conn EXCEPT
                  ![p][c].pc = "GetAllLockedQuestions.cleanup",
                  ![p][c].written = Append(@, Wrote("connected", NoEvent, {}))]
    /\ lastOp' = NoOp
    /\ UNCHANGED <<storeVars, dispatchVars, clientQueue, clients, register,
                   unregister, closed>>

\* SSEHandler, GetAllLockedQuestions, first statement: the stale rows are
\* deleted.
SSESnapshotCleanup(p, c) ==
    /\ conn[p][c].pc = "GetAllLockedQuestions.cleanup"
    /\ question_locks' = PurgeStale(question_locks, now)
    /\ conn' = [conn EXCEPT ![p][c].pc = "GetAllLockedQuestions.select"]
    /\ lastOp' = NoOp
    /\ UNCHANGED <<nonLockVars, dispatchVars, clientQueue, clients, register,
                   unregister, closed>>

\* SSEHandler, GetAllLockedQuestions, second statement, and what follows:
\* when the listing succeeded, the locks are written as one question_locked
\* event; then the loop starts.
SSESnapshotSelect(p, c) ==
    /\ conn[p][c].pc = "GetAllLockedQuestions.select"
    /\ \E ok \in BOOLEAN :
          conn' = [conn EXCEPT
                     ![p][c].pc = "loop",
                     ![p][c].listed = ok,
                     ![p][c].written =
                        IF ok
                        THEN Append(@, Wrote("snapshot", NoEvent,
                                             SelectAllLocks(question_locks)))
                        ELSE @]
    /\ lastOp' = NoOp
    /\ UNCHANGED <<storeVars, dispatchVars, clientQueue, clients, register,
                   unregister, closed>>

\* Faulty variant of SSELoopEvent: the handler starts to read the client's
\* Channel before it has listed the locks.
SSELoopEventBeforeSnapshot(p, c) ==
    /\ conn[p][c].pc \in {"GetAllLockedQuestions.cleanup", "loop"}
    /\ clientQueue[p][c] # <<>>
    /\ Len(conn[p][c].written) < MaxWritten
    /\ clientQueue' = [clientQueue EXCEPT ![p][c] = Tail(@)]
    /\ conn' = [conn EXCEPT
                  ![p][c].written =
                     Append(@, Wrote("event", Head(clientQueue[p][c]), {}))]
    /\ lastOp' = NoOp
    /\ UNCHANGED <<storeVars, dispatchVars, clients, register, unregister,
                   closed>>

\* SSEHandler's loop, case event := <-client.Channel: the event is written.
SSELoopEvent(p, c) ==
    /\ conn[p][c].pc = "loop"
    /\ clientQueue[p][c] # <<>>
    /\ Len(conn[p][c].written) < MaxWritten
    /\ clientQueue' = [clientQueue EXCEPT ![p][c] = Tail(@)]
    /\ conn' = [conn EXCEPT
                  ![p][c].written =
                     Append(@, Wrote("event", Head(clientQueue[p][c]), {}))]
    /\ lastOp' = NoOp
    /\ UNCHANGED <<storeVars, dispatchVars, clients, register, unregister,
                   closed>>

\* SSEHandler's loop, case <-ticker.C: a heartbeat is written.
SSELoopHeartbeat(p, c) ==
    /\ conn[p][c].pc = "loop"
    /\ Len(conn[p][c].written) < MaxWritten
    /\ conn' = [conn EXCEPT
                  ![p][c].written = Append(@, Wrote("heartbeat", NoEvent, {}))]
    /\ lastOp' = NoOp
    /\ UNCHANGED <<storeVars, dispatchVars, clientQueue, clients, register,
                   unregister, closed>>

\* SSEHandler returns, because a write failed or the request's context is
\* done: the deferred UnregisterClient puts the client on b.unregister.
SSEReturn(p, c) ==
    /\ conn[p][c].pc \in {"connected", "GetAllLockedQuestions.cleanup",
                          "GetAllLockedQuestions.select", "loop"}
    /\ unregister' = [unregister EXCEPT ![p] = Append(@, c)]
    /\ conn' = [conn EXCEPT ![p][c].pc = "ended",
                            ![p][c].unregisterCalls = @ + 1]
    /\ lastOp' = NoOp
    /\ UNCHANGED <<storeVars, dispatchVars, clientQueue, clients, register,
                   closed>>

\* UnregisterClient(client) is called once more for a client whose
\* connection has ended.
UnregisterClient(p, c) ==
    /\ conn[p][c].pc = "ended"
    /\ conn[p][c].unregisterCalls < MaxUnregisterCalls
    /\ unregister' = [unregister EXCEPT ![p] = Append(@, c)]
    /\ conn' = [conn EXCEPT ![p][c].unregisterCalls = @ + 1]
    /\ lastOp' = NoOp
    /\ UNCHANGED <<storeVars, dispatchVars, clientQueue, clients, register,
                   closed>>

\* The run loop of process p is at its select and b.clientsMutex is free: no
\* broadcastToClients call is in progress.
RunLoopCanLock(p) == \A d \in Dispatchers : ~dispatching[p][d].busy

\* run, case client := <-b.register: the client is added to b.clients.
RunRegister(p) ==
    /\ RunLoopCanLock(p)
    /\ register[p] # <<>>
    /\ register' = [register EXCEPT ![p] = Tail(@)]
    /\ clients' = [clients EXCEPT ![p] = @ \cup {Head(register[p])}]
    /\ lastOp' = NoOp
    /\ UNCHANGED <<storeVars, dispatchVars, clientQueue, unregister, closed,
                   conn>>

\* Faulty variant of RunUnregister: the case does not take b.clientsMutex,
\* and runs while the relay subscriber is in broadcastToClients.
RunUnregisterWithoutLock(p) ==
    /\ ~dispatching[p]["run"].busy
    /\ unregister[p] # <<>>
    /\ unregister' = [unregister EXCEPT ![p] = Tail(@)]
    /\ clients' = [clients EXCEPT ![p] = @ \ {Head(unregister[p])}]
    /\ closed' = IF Head(unregister[p]) \in clients[p]
                 THEN [closed EXCEPT ![p][Head(unregister[p])] = @ + 1]
                 ELSE closed
    /\ lastOp' = NoOp
    /\ UNCHANGED <<storeVars, dispatchVars, clientQueue, register, conn>>

\* run, case client := <-b.unregister: a client found in b.clients is
\* deleted from it and its Channel is closed; otherwise nothing is done.
RunUnregister(p) ==
    /\ RunLoopCanLock(p)
    /\ unregister[p] # <<>>
    /\ unregister' = [unregister EXCEPT ![p] = Tail(@)]
    /\ clients' = [clients EXCEPT ![p] = @ \ {Head(unregister[p])}]
    /\ closed' = IF Head(unregister[p]) \in clients[p]
                 THEN [closed EXCEPT ![p][Head(unregister[p])] = @ + 1]
                 ELSE closed
    /\ lastOp' = NoOp
    /\ UNCHANGED <<storeVars, dispatchVars, clientQueue, register, conn>>


\* ------------------------------------------------- viewers come and go
\* No viewer is connected; team 1 holds the lock of question 1.
NoClients == [p \in Procs |-> {}]

InitViewer ==
    /\ NewBroadcaster(FALSE, NoClients)
    /\ now = 0
    /\ team_quota_slots = {}
    /\ quotaCall = [r \in Reqs |-> IdleQuotaCall]
    /\ question_locks = {QuestionLock(1, 1, 0)}
    /\ question_attempts = {}
    /\ question_timers = {}
    /\ NewAdminRateLimiter
    /\ team_completed_questions = {}
    /\ tryLockRet = [t \in Teams |-> [q \in Questions |-> "pending"]]
    /\ lastOp = NoOp
    /\ lockCall = [c \in Callers |-> IdleCall]
    /\ req = [r \in Reqs |-> IdleReq]
    /\ question_points = 100
    /\ team_points = [t \in Teams |-> 0]
    /\ returnedCount = [t \in Teams |-> 0]
    /\ returnedPenalty = [t \in Teams |-> 0]

\* Client 1 connects, is served and disconnects, while a producer broadcasts
\* and time passes.
NextViewer ==
    \/ Tick
    \/ EmitRelayed
    \/ RunTakeEvent(1)
    \/ RunRegister(1)
    \/ RunUnregister(1)
    \/ DispatchTo(1, "run", 1)
    \/ SSEConnect(1, 1)
    \/ SSEWriteConnected(1, 1)
    \/ SSESnapshotCleanup(1, 1)
    \/ SSESnapshotSelect(1, 1)
    \/ SSELoopEvent(1, 1)
    \/ SSELoopHeartbeat(1, 1)
    \/ SSEReturn(1, 1)

SpecViewer == InitViewer /\ [][NextViewer]_vars

\* The kinds of the messages written to a connection, in order.
KindsOf(written) == [i \in 1..Len(written) |-> written[i].kind]

\* C23: on every new connection the first message written is the connected
\* acknowledgement, the next one, when the lock listing succeeded, is the
\* snapshot of the locks, and no event or heartbeat is written before them.
C23_AcknowledgementAndSnapshotFirst ==
    \A p \in Procs, c \in Clients :
        LET kinds == KindsOf(conn[p][c].written)
        IN /\ \A i \in 1..Len(kinds) :
                 /\ (i = 1) = (kinds[i] = "connected")
                 /\ kinds[i] = "snapshot" => i = 2
           /\ conn[p][c].listed => (Len(kinds) >= 2 /\ kinds[2] = "snapshot")
           /\ (Len(kinds) >= 2 /\ kinds[2] # "snapshot")
              => (conn[p][c].pc \in {"loop", "ended"} /\ ~conn[p][c].listed)

\* A viewer that connected while team 1 held the lock of question 1 has been
\* sent the acknowledgement, the snapshot with that lock, and then an event
\* of the producer.
C23_Witness ==
    /\ Len(conn[1][1].written) >= 3
    /\ conn[1][1].written[1] = Wrote("connected", NoEvent, {})
    /\ conn[1][1].written[2] = Wrote("snapshot", NoEvent, {QuestionLock(1, 1, 0)})
    /\ conn[1][1].written[3].kind = "event"

\* ------------------------------------------ registering and unregistering
\* Client 1 is not connected yet; the other clients are registered on
\* process 1.
OthersRegistered == [p \in Procs |-> IF p = 1 THEN Clients \ {1} ELSE {}]

InitConnect == InitStore /\ NewBroadcaster(FALSE, OthersRegistered)

\* Client 1 connects and disconnects, at any point of its handler, and
\* UnregisterClient is called for it again, while a producer broadcasts.
NextConnect ==
    \/ EmitRelayed
    \/ RunTakeEvent(1)
    \/ \E c \in Clients : DispatchTo(1, "run", c)
    \/ RunRegister(1)
    \/ RunUnregister(1)
    \/ SSEConnect(1, 1)
    \/ SSEWriteConnected(1, 1)
    \/ SSESnapshotCleanup(1, 1)
    \/ SSESnapshotSelect(1, 1)
    \/ SSEReturn(1, 1)
    \/ UnregisterClient(1, 1)

SpecConnect == InitConnect /\ [][NextConnect]_vars

\* C21: unregisterClient is idempotent: however many times it is called for
\* a client, the run loop removes the client from the registry and closes
\* its Channel exactly once, never closes a closed Channel, and leaves every
\* other client's registration and Channel as they are. At every unregister
\* request the run loop handles, the client is absent afterwards and its
\* Channel has been closed once, by this request or by an earlier one.
C21_UnregisterIdempotent ==
    [][\A p \in Procs, c \in Clients :
         (/\ unregister[p] # <<>>
          /\ Head(unregister[p]) = c
          /\ unregister'[p] = Tail(unregister[p]))
         => /\ c \notin clients'[p]
            /\ closed'[p][c] = 1
            /\ \A c2 \in Clients \ {c} :
                  /\ (c2 \in clients'[p]) = (c2 \in clients[p])
                  /\ closed'[p][c2] = closed[p][c2]
                  /\ clientQueue'[p][c2] = clientQueue[p][c2]
      ]_vars

\* The run loop keeps running: it takes what waits on its channels, and a
\* send to a client's Channel ends.
FairRunLoop ==
    /\ WF_vars(RunRegister(1))
    /\ WF_vars(RunUnregister(1))
    /\ WF_vars(RunTakeEvent(1))
    /\ WF_vars(\E c \in Clients : DispatchTo(1, "run", c))

SpecConnectFair == SpecConnect /\ FairRunLoop

\* C22: a client that its connection handler registered and later
\* unregistered is eventually absent from the registry, with its Channel
\* closed, whichever of the pending register and unregister requests the run
\* loop takes first.
C22_EndedConnectionIsUnregistered ==
    \A c \in Clients :
        (conn[1][c].pc = "ended")
        ~> (c \notin clients[1] /\ closed[1][c] = 1)
\* ------------------------------------------------------ the periodic sweep
\* The age of a lock row at a given time.
AgeOf(r, clock) == clock - r.locked_at

C25_NotStaleWhenRead ==
    (lastOp.op = "isLocked" /\ lastOp.result = "locked")
        => \A r \in lastOp.ret : AgeOf(r, now) < StaleSeconds
\* --------------------------------------------- concurrent wrong answers
\* Request r has had DeductPenaltyPoints take the penalty of the wrong
\* attempt it recorded.
Charged(r) ==
    /\ req[r].recorded
    /\ req[r].penalty > 0
    /\ req[r].pc # "DeductPenaltyPoints"

\* C26: two wrong-answer submissions of one team on one question are never
\* both charged the penalty of the same attempt ordinal; in particular the
\* 70% penalty of the fifth attempt is deducted at most once.
C26_OneChargePerOrdinal ==
    \A r1, r2 \in Reqs :
        (/\ r1 # r2
         /\ Charged(r1) /\ Charged(r2)
         /\ req[r1].team = req[r2].team
         /\ req[r1].q = req[r2].q)
        => req[r1].att # req[r2].att
\* --------------------------------------------- releases by a submission
\* Request r runs the UnlockQuestion call of its submission in this step.
Releases(r) ==
    /\ req[r].pc \in {"UnlockQuestion", "UnlockQuestion.exhausted"}
    /\ req'[r].pc # req[r].pc

\* C27: the release made by a team's answer submission, after a correct
\* answer or at exhaustion, never removes a lock row held by another team.
C27_ReleaseOnlyOwnLock ==
    [][\A r \in Reqs :
         Releases(r) =>
            \A l \in question_locks \ question_locks' :
                l.locked_by_team_id = req[r].team
      ]_vars
\* ------------------------------------------- removals and their broadcast
\* A question_unlocked event of question q is on the broadcast channel of
\* process 1, where the handlers broadcast.
UnlockedBroadcast(q) ==
    \E i \in 1..Len(broadcast[1]) :
        /\ broadcast[1][i].type = "question_unlocked"
        /\ broadcast[1][i].question_id = q

\* C28: the removal of a lock row is followed by a question_unlocked
\* broadcast of its question. Team 1 holds the lock of question 1 from the
\* start: once its row is gone, the event is eventually broadcast.
C28_RemovalIsBroadcast == (~HeldBy(1)) ~> UnlockedBroadcast(1)
\* ------------------------------------------------- one solver per question
\* The teams recorded as having completed question q.
SolversOf(q) ==
    {c.team_id : c \in {d \in team_completed_questions : d.question_id = q}}

\* C29: with no administrative unlock, each question is recorded as
\* completed by at most one team.
C29_AtMostOneSolver ==
    \A q \in Questions : Cardinality(SolversOf(q)) <= 1
\* ------------------------------------- one team's solves at the quota limit
\* Team 1 has solved one question less than the limit in its current slot;
\* the questions are unsolved and unlocked.
InitLastSolve ==
    /\ now = 0
    /\ team_quota_slots = {QuotaSlot(1, 0, QuotaLimit - 1)}
    /\ quotaCall = [r \in Reqs |-> IdleQuotaCall]
    /\ InitBroadcaster
    /\ question_locks = {}
    /\ question_attempts = {}
    /\ question_timers = {}
    /\ NewAdminRateLimiter
    /\ team_completed_questions = {}
    /\ tryLockRet = [t \in Teams |-> [q \in Questions |-> "pending"]]
    /\ lastOp = NoOp
    /\ lockCall = [c \in Callers |-> IdleCall]
    /\ req = [r \in Reqs |-> IdleReq]
    /\ question_points = 100
    /\ team_points = [t \in Teams |-> 0]
    /\ returnedCount = [t \in Teams |-> 0]
    /\ returnedPenalty = [t \in Teams |-> 0]

\* POST /hunt/question/r by team 1 with the correct answer: each request is
\* for a question of its own.
SubmitCorrectAnswerTo(r) ==
    /\ r \in Questions
    /\ QuestionStart(r, 1, r, "POST", TRUE)

\* The slot exists and does not expire here, so that GetQuotaSlot returns
\* after its SELECT.
NextLastSolve ==
    \E r \in Reqs :
        \/ SubmitCorrectAnswerTo(r)
        \/ QuestionIsSolvedByTeam(r)
        \/ QuestionQuotaSelect(r)
        \/ QuestionIsSolvedByAnyone(r)
        \/ QuestionLockPurge(r)
        \/ QuestionLockSelect(r)
        \/ QuestionIsExhausted(r)
        \/ QuestionMarkCompleted(r)
        \/ QuestionAddPoints(r)
        \/ QuestionIncrementQuota(r)
        \/ QuestionUnlockSolved(r)
        \/ QuestionBroadcast(r)
        \/ Close(r)

SpecLastSolve == InitLastSolve /\ [][NextLastSolve]_vars

\* C30: questions_solved_in_slot never exceeds the quota limit within a
\* slot, whatever the interleaving of the team's requests on different
\* questions.
C30_CounterWithinLimit ==
    \A s \in team_quota_slots : s.questions_solved_in_slot <= QuotaLimit
\* ------------------------------------------- the relay's copy comes back
\* C31: with the relay configured, a client registered on the process that
\* broadcast an event has that event put on its Channel at most once. The
\* producer runs on process 1 and its events are pairwise distinct.
C31_OwnEventQueuedOnce ==
    redisClient =>
        \A c \in clients[1] :
            \A i, j \in 1..Len(delivered[1][c]) :
                delivered[1][c][i] = delivered[1][c][j] => i = j
\* ---------------------------------------------------- timers and the lock
\* Request r has acquired the lock: LockQuestion returned no error, and the
\* handler went on to broadcast question_locked.
Acquired(rq) ==
    \/ rq.pc = "Broadcast.opened.question_locked"
    \/ \E i \in 1..Len(rq.sent) : rq.sent[i] = "question_locked"

\* C32: a team's timer for a question is started only by a request whose
\* LockQuestion call succeeded, and question_locked is broadcast in a team's
\* name only when the question's lock row is that team's.
C32_TimerOnlyWithLock ==
    [][\A r \in Reqs :
         /\ (/\ req[r].pc = "StartQuestionTimer"
             /\ req'[r].pc # "StartQuestionTimer"
             /\ question_timers' # question_timers)
            => Acquired(req[r])
         /\ (/\ req[r].pc = "LockQuestion"
             /\ req'[r].pc = "Broadcast.opened.question_locked")
            => QuestionLock(req[r].q, req[r].team, now) \in question_locks'
      ]_vars
\* ------------------------------------------ a release that fails in storage
\* Correct answer, UnlockQuestion(lvl) returns an error: the DELETE removed
\* nothing, the handler logs a warning, skips the three broadcasts of the
\* else branch and redirects.
QuestionUnlockSolvedFails(r) ==
    /\ At(r, "UnlockQuestion")
    /\ req' = [req EXCEPT ![r] =
                 [req[r] EXCEPT !.pc = "done", !.status = "302"]]
    /\ lastOp' = [NoOp EXCEPT !.op = "release", !.q = req[r].q,
                              !.team = req[r].team, !.result = "error"]
    /\ UNCHANGED <<now, question_locks, question_attempts, question_timers,
                   team_completed_questions, callVars, team_quota_slots,
                   broadcast, question_points, adminVars, team_points, returnedCount,
                   returnedPenalty>>

\* Team 1's correct answers to question 1, whose lock it holds, with a
\* store that may fail the release.
NextReleaseFails ==
    \/ NextSolveTwice
    \/ \E r \in Reqs : QuestionUnlockSolvedFails(r)

SpecReleaseFails == InitSolve /\ [][NextReleaseFails]_vars

\* C33: a confirmed solve stays recorded and its question_solved and
\* leaderboard_update events are broadcast, also when the release failed in
\* storage.
C33_SolveBroadcastDespiteFailedRelease ==
    \A r \in Reqs :
        (req[r].pc = "done" /\ req[r].status = "302")
        => /\ Completed(req[r].team, req[r].q) \in team_completed_questions
           /\ \E i \in 1..Len(req[r].sent) : req[r].sent[i] = "question_solved"
           /\ \E i \in 1..Len(req[r].sent) :
                 req[r].sent[i] = "leaderboard_update"
\* ----------------------------------------------- points of a solved question
\* C34: a team is awarded a question's points once per solve: starting from
\* no points and no penalty, its points never exceed the points of the
\* questions it is recorded to have solved, concurrent duplicates included.
C34_PointsOncePerSolve ==
    \A t \in Teams :
        team_points[t] <= question_points * Cardinality(SolvedBy(t))
\* ------------------------------------------- the run loop under full load
\* Relay mode on process 1: client 1 connects and its handler returns, at
\* once or later (what it writes in between is left out), the other clients
\* are registered and never read their Channels, a producer broadcasts, and
\* the relay subscriber hands the process's own published events to
\* broadcastToClients.
InitLoop == InitStore /\ NewBroadcaster(TRUE, OthersRegistered)

NextLoop ==
    \/ EmitRelayed
    \/ RunTakeEvent(1)
    \/ \E i \in 1..NumRelayEvents : PublishToRedis(1, i)
    \/ SubscriberTake(1)
    \/ \E d \in Dispatchers, c \in Clients : DispatchTo(1, d, c)
    \/ RunRegister(1)
    \/ RunUnregister(1)
    \/ SSEConnect(1, 1)
    \/ SSEReturn(1, 1)

\* The goroutines of process 1 keep running: the run loop takes a case of
\* its select that stays ready, a send to a client's Channel ends, queued or
\* timed out, a started publish is carried out and the subscriber takes what
\* the relay delivers.
FairLoop ==
    /\ WF_vars(RunRegister(1))
    /\ WF_vars(RunUnregister(1))
    /\ WF_vars(RunTakeEvent(1))
    /\ WF_vars(\E d \in Dispatchers, c \in Clients : DispatchTo(1, d, c))
    /\ WF_vars(\E i \in 1..NumRelayEvents : PublishToRedis(1, i))
    /\ WF_vars(SubscriberTake(1))

SpecLoop == InitLoop /\ [][NextLoop]_vars /\ FairLoop

\* The run loop of process p is at its select with nothing to take.
RunLoopAtRest(p) ==
    /\ ~dispatching[p]["run"].busy
    /\ register[p] = <<>>
    /\ unregister[p] = <<>>
    /\ broadcast[p] = <<>>

\* C35: the run loop never stops and never deadlocks: whenever it is busy or
\* a register, unregister or broadcast request is pending, it eventually is
\* back at its select with every pending request handled.
C35_RunLoopHandlesEveryRequest == (~RunLoopAtRest(1)) ~> RunLoopAtRest(1)

\* The run loop is at rest after it has registered and unregistered client 1
\* and dispatched an event past a client whose Channel was full.
C35_Witness ==
    /\ RunLoopAtRest(1)
    /\ conn[1][1].pc = "ended"
    /\ closed[1][1] = 1
    /\ \E c \in Clients : skipped[1][c] # <<>>

\* C36: no event is sent to a client's Channel that has been closed, and a
\* Channel is closed only as its client is removed from the registry.
C36_ClosedChannelNeverWritten ==
    [][\A p \in Procs, c \in Clients :
         /\ (\/ delivered'[p][c] # delivered[p][c]
             \/ skipped'[p][c] # skipped[p][c])
            => closed[p][c] = 0
         /\ closed'[p][c] # closed[p][c]
            => (c \in clients[p] /\ c \notin clients'[p] /\ closed[p][c] = 0)
      ]_vars

\* Client 1 was sent an event while it was registered, and its Channel has
\* been closed since.
C36_Witness ==
    /\ closed[1][1] = 1
    /\ delivered[1][1] # <<>>


\* ------------------------------------- a viewer connects while a lock is taken
\* No viewer is registered and nothing is locked.
InitSnapshot == InitStore /\ NewBroadcaster(FALSE, NoClients)

\* Team 2 opens question 1 once, while client 1 connects to the event stream
\* and stays connected.
NextSnapshot ==
    \/ OpenQuestion(1)
    \/ QuestionIsSolvedByTeam(1)
    \/ QuestionQuotaSelect(1)
    \/ QuestionQuotaWrite(1)
    \/ QuestionIsSolvedByAnyone(1)
    \/ QuestionLockPurge(1)
    \/ QuestionLockSelect(1)
    \/ QuestionIsExhausted(1)
    \/ QuestionLockQuestion(1)
    \/ QuestionBroadcast(1)
    \/ QuestionStartTimer(1)
    \/ RunTakeEvent(1)
    \/ RunRegister(1)
    \/ DispatchTo(1, "run", 1)
    \/ SSEConnect(1, 1)
    \/ SSEWriteConnected(1, 1)
    \/ SSESnapshotCleanup(1, 1)
    \/ SSESnapshotSelect(1, 1)
    \/ SSELoopEvent(1, 1)

\* The handler goroutines, the run loop and the connection's goroutine all
\* keep running.
FairSnapshot ==
    /\ WF_vars(QuestionIsSolvedByTeam(1) \/ QuestionQuotaSelect(1)
               \/ QuestionQuotaWrite(1) \/ QuestionIsSolvedByAnyone(1)
               \/ QuestionLockPurge(1) \/ QuestionLockSelect(1)
               \/ QuestionIsExhausted(1)
               \/ QuestionLockQuestion(1) \/ QuestionBroadcast(1)
               \/ QuestionStartTimer(1))
    /\ WF_vars(RunTakeEvent(1))
    /\ WF_vars(RunRegister(1))
    /\ WF_vars(DispatchTo(1, "run", 1))
    /\ WF_vars(SSEWriteConnected(1, 1) \/ SSESnapshotCleanup(1, 1)
               \/ SSESnapshotSelect(1, 1) \/ SSELoopEvent(1, 1))

SpecSnapshot == InitSnapshot /\ [][NextSnapshot]_vars /\ FairSnapshot

\* The connection of client c to process p was sent a snapshot of the locks
\* that does not hold the lock of question q.
SnapshotWithout(p, c, q) ==
    /\ conn[p][c].listed
    /\ \E i \in 1..Len(conn[p][c].written) :
          /\ conn[p][c].written[i].kind = "snapshot"
          /\ \A l \in conn[p][c].written[i].locks : l.question_id # q

\* C37: when team 2's lock of question 1 is not in the snapshot that client 1
\* was sent, the question_locked event the handler broadcasts for it is
\* eventually put on the client's Channel, unless the Channel is full.
C37_NoLockChangeMissed ==
    (/\ SnapshotWithout(1, 1, 1)
     /\ "question_locked" \in Range(req[1].sent))
    ~> Offered(1, 1, Event("question_locked", 1, 2))


\* ------------------------------------------------------------ leaderboard
\* The attempt rows of a team, over all questions.
AttemptsOf(attempts, t) == {a \in attempts : a.team_id = t}

RECURSIVE SumOf(_)
SumOf(values) ==
    IF values = {} THEN 0
    ELSE LET v == CHOOSE x \in values : TRUE
         IN v + SumOf(values \ {v})

RECURSIVE SumPenalties(_)
SumPenalties(rows) ==
    IF rows = {} THEN 0
    ELSE LET a == CHOOSE x \in rows : TRUE
         IN a.total_penalty + SumPenalties(rows \ {a})

\* GetTotalPenalty: SELECT COALESCE(SUM(total_penalty), 0) FROM
\* question_attempts WHERE team_id = ?
GetTotalPenalty(attempts, t) == SumPenalties(AttemptsOf(attempts, t))

\* GetLeaderbaord, the loop over the rows: user.NetScore = user.Points -
\* user.TotalPenalty.
LeaderBoardUser(t, points, solved, totalPenalty) ==
    [team |-> t, Points |-> points, QuestionsSolved |-> solved,
     TotalPenalty |-> totalPenalty, NetScore |-> points - totalPenalty]

\* GetLeaderbaord, the row of team t: teams LEFT JOIN team_completed_questions
\* LEFT JOIN question_timers LEFT JOIN question_attempts, grouped by team.
\* Every completed question is joined with every attempt row of the team;
\* COUNT counts the joined rows with a completed question and SUM(DISTINCT
\* qa.total_penalty) adds the distinct values of the column. The time column
\* is not followed.
LeaderboardRow(t) ==
    LET solved == Cardinality({c \in team_completed_questions : c.team_id = t})
        rows == AttemptsOf(question_attempts, t)
        joined == IF rows = {} THEN solved ELSE solved * Cardinality(rows)
    IN LeaderBoardUser(t, team_points[t], joined,
                       SumOf({a.total_penalty : a \in rows}))

\* GET /leaderboard: GetLeaderbaord returns a row for every team.
GetLeaderbaord ==
    /\ lastOp' = [NoOp EXCEPT !.op = "leaderboard",
                              !.ret = {LeaderboardRow(t) : t \in Teams}]
    /\ UNCHANGED <<now, question_locks, question_attempts, question_timers,
                   team_completed_questions, tryLockRet, lockCall, gameVars>>

\* POST /hunt/question/1 by team 1, with a right or a wrong answer.
SubmitAnswer(r) ==
    \E correct \in BOOLEAN : QuestionStart(r, 1, 1, "POST", correct)

\* Team 1, which holds the lock of question 1, answers it, one request after
\* the other, and the leaderboard is read.
NextLeaderboard ==
    \/ SubmitAnswer(1)
    \/ QuestionIsSolvedByTeam(1)
    \/ QuestionQuotaSelect(1)
    \/ QuestionQuotaWrite(1)
    \/ QuestionIsSolvedByAnyone(1)
    \/ QuestionLockPurge(1)
    \/ QuestionLockSelect(1)
    \/ QuestionIsExhausted(1)
    \/ QuestionMarkCompleted(1)
    \/ QuestionAddPoints(1)
    \/ QuestionIncrementQuota(1)
    \/ QuestionUnlockSolved(1)
    \/ QuestionRecordRead(1)
    \/ QuestionRecordUpsert(1)
    \/ QuestionDeductPenalty(1)
    \/ QuestionUnlockExhausted(1)
    \/ QuestionBroadcast(1)
    \/ Close(1)
    \/ GetLeaderbaord

SpecLeaderboard == InitSolve /\ [][NextLeaderboard]_vars

\* No request is being served.
Quiet == \A r \in Reqs : req[r].pc \in {"idle", "done"}

\* C39: the net score the leaderboard shows for a team, read while no
\* request is being served, is the points of the questions the team has
\* solved minus the sum of total_penalty over the team's attempt rows.
C39_NetScoreCountsPenaltyOnce ==
    (lastOp.op = "leaderboard" /\ Quiet)
    => \A row \in lastOp.ret :
          row.NetScore =
             question_points
                * Cardinality({c \in team_completed_questions :
                                 c.team_id = row.team})
             - GetTotalPenalty(question_attempts, row.team)


\* ------------------------------------------------- admin login limiter
\* now.Before(attempt.BlockedUntil)
Blocked(attempt, clock) == attempt.exists /\ clock < attempt.BlockedUntil

\* CheckAndRecordAttempt(ip, success) at the given time, under arl.mu: the
\* record it leaves and whether the attempt is allowed.
CheckAndRecordAttempt(attempt, clock, success) ==
    LET got == IF attempt.exists THEN attempt
               ELSE [NoAttempt EXCEPT !.exists = TRUE, !.LastAttempt = clock]
        fresh == IF clock - got.LastAttempt > WindowSeconds
                 THEN [got EXCEPT !.Count = 0, !.BlockedUntil = 0]
                 ELSE got
        seen == [fresh EXCEPT !.LastAttempt = clock]
        failed == [seen EXCEPT !.Count = @ + 1]
    IN IF clock < got.BlockedUntil
       THEN [attempt |-> got, allowed |-> FALSE]
       ELSE IF success
       THEN [attempt |-> [seen EXCEPT !.Count = 0, !.BlockedUntil = 0],
             allowed |-> TRUE]
       ELSE IF failed.Count >= AdminMaxAttempts
       THEN [attempt |-> [failed EXCEPT !.BlockedUntil = clock + BlockSeconds],
             allowed |-> FALSE]
       ELSE [attempt |-> failed, allowed |-> TRUE]

\* What the admin login leaves alone.
nonAdminVars == <<question_locks, question_attempts, question_timers,
                  team_completed_questions, tryLockRet, lockCall,
                  question_points, team_points, req, returnedCount,
                  returnedPenalty, team_quota_slots, quotaCall, broadcast,
                  relayVars>>

\* POST /sudo from the client IP arrives, with the right or a wrong password.
AdminStart(r) ==
    /\ adminReq[r].pc = "idle"
    /\ \E correct \in BOOLEAN :
          adminReq' = [adminReq EXCEPT
                         ![r] = [IdleAdminReq EXCEPT !.pc = "isBlocked",
                                                     !.correct = correct]]
    /\ lastOp' = NoOp
    /\ UNCHANGED <<now, adminRateLimiter, nonAdminVars>>

\* AdminHandler, under mu.RLock: a request from a blocked IP is answered
\* with the time left; otherwise the password is compared next.
AdminIsBlocked(r) ==
    /\ adminReq[r].pc = "isBlocked"
    /\ adminReq' = [adminReq EXCEPT
                      ![r] = IF Blocked(adminRateLimiter, now)
                             THEN [@ EXCEPT !.pc = "done",
                                            !.status = "blocked"]
                             ELSE [@ EXCEPT !.pc = "CheckAndRecordAttempt"]]
    /\ lastOp' = NoOp
    /\ UNCHANGED <<now, adminRateLimiter, nonAdminVars>>

\* AdminHandler: the password is compared and the attempt is recorded. After
\* a wrong password GetRemainingAttempts words the reply; after the right one
\* the session is saved and the client is sent to /su, whatever
\* CheckAndRecordAttempt returned.
AdminCheckAndRecordAttempt(r) ==
    LET res == CheckAndRecordAttempt(adminRateLimiter, now, adminReq[r].correct)
    IN /\ adminReq[r].pc = "CheckAndRecordAttempt"
       /\ adminRateLimiter' = res.attempt
       /\ adminReq' = [adminReq EXCEPT
                         ![r] = IF adminReq[r].correct
                                THEN [@ EXCEPT !.pc = "done",
                                               !.status = "303 /su"]
                                ELSE [@ EXCEPT !.pc = "GetRemainingAttempts"]]
       /\ lastOp' = [NoOp EXCEPT !.op = "adminAttempt",
                                 !.result = IF res.allowed THEN "allowed"
                                            ELSE "blocked"]
       /\ UNCHANGED <<now, nonAdminVars>>

\* AdminHandler, after a wrong password: GetRemainingAttempts, under
\* mu.RLock, and the reply.
AdminGetRemainingAttempts(r) ==
    /\ adminReq[r].pc = "GetRemainingAttempts"
    /\ adminReq' = [adminReq EXCEPT
                      ![r] = [@ EXCEPT !.pc = "done",
                                       !.status = "incorrect password"]]
    /\ lastOp' = NoOp
    /\ UNCHANGED <<now, adminRateLimiter, nonAdminVars>>

\* The reply has been sent; the client may send its next request.
AdminClose(r) ==
    /\ adminReq[r].pc = "done"
    /\ adminReq' = [adminReq EXCEPT ![r] = IdleAdminReq]
    /\ lastOp' = NoOp
    /\ UNCHANGED <<now, adminRateLimiter, nonAdminVars>>

\* A block duration goes by.
BlockPasses ==
    /\ now + BlockSeconds <= MaxBlocks * BlockSeconds
    /\ now' = now + BlockSeconds
    /\ lastOp' = NoOp
    /\ UNCHANGED <<adminVars, nonAdminVars>>

InitAdmin == InitStore /\ InitBroadcaster

NextAdmin ==
    \/ BlockPasses
    \/ \E r \in Reqs :
          \/ AdminStart(r)
          \/ AdminIsBlocked(r)
          \/ AdminCheckAndRecordAttempt(r)
          \/ AdminGetRemainingAttempts(r)
          \/ AdminClose(r)

SpecAdmin == InitAdmin /\ [][NextAdmin]_vars

\* C40: while the client IP is blocked no login from it succeeds, whatever
\* the password and however the requests interleave, and no step changes the
\* IP's record.
C40_BlockedIPCannotLogIn ==
    [][Blocked(adminRateLimiter, now)
       => /\ \A r \in Reqs :
                adminReq'[r].status = "303 /su" => adminReq[r].status = "303 /su"
          /\ adminRateLimiter' = adminRateLimiter
      ]_vars
====
